---- MODULE Spec2Model ----
(***************************************************************************)
(* A model of the LLM evaluation service: the prompt classifier, the       *)
(* rubric evaluator and the model dispatcher (evaluatePrompt), and of the  *)
(* Dashboard's form submission.                                            *)
(*                                                                         *)
(* Text is a sequence of characters, each a one-character string; a       *)
(* character that cannot be written in a string here is the name of its   *)
(* code point ("U+00A0").  Numbers are IEEE 754 doubles: a sign, an odd    *)
(* integer of at most 53 bits and a power of two, or an infinity, or NaN;  *)
(* every operation rounds to the nearest double, ties to even.             *)
(***************************************************************************)
EXTENDS Integers, Sequences, FiniteSets, TLC

VARIABLES
  given,      \* the parts the prompt text was written from (not read by the program)
  prompt,     \* the prompt text
  response,   \* rubric evaluation alone: the response text being scored
  judge,      \* rubric evaluation alone: what the judge call does
  rubric,     \* rubric evaluation alone: what evaluateWithRubric returned
  epc,        \* evaluatePrompt: "idle", "awaiting", "resolved" or "rejected"
  calls,      \* per configured model: the position of its getGroqResponse
  values,     \* Promise.all: the array of the values resolved so far
  settled,    \* Promise.all: how many of the promises have resolved
  responses,  \* the array evaluatePrompt resolved with
  judgeCalls, \* per configured model: judge calls issued for it
  dPrompt,    \* Dashboard: the textarea's prompt
  dResponses, \* Dashboard: the responses state
  isLoading,  \* Dashboard: the loading flag
  error,      \* Dashboard: the error state (Null or a message)
  dpc,        \* Dashboard: handleSubmit is "idle", "fetching" or "reading"
  reply,      \* Dashboard: the HTTP response whose body is being read
  shown       \* Dashboard: the responses shown when the request was issued

rubricVars == <<given, prompt, response, judge, rubric>>
batchVars == <<epc, calls, values, settled, responses, judgeCalls>>
dashVars == <<dPrompt, dResponses, isLoading, error, dpc, reply, shown>>
vars == <<rubricVars, batchVars, dashVars>>

Null == "null"

-----------------------------------------------------------------------------
(* Characters and the regular-expression classes the program uses          *)

DigitSeq == <<"0", "1", "2", "3", "4", "5", "6", "7", "8", "9">>
UpperSeq == <<"A", "B", "C", "D", "E", "F", "G", "H", "I", "J", "K", "L", "M",
              "N", "O", "P", "Q", "R", "S", "T", "U", "V", "W", "X", "Y", "Z">>
LowerSeq == <<"a", "b", "c", "d", "e", "f", "g", "h", "i", "j", "k", "l", "m",
              "n", "o", "p", "q", "r", "s", "t", "u", "v", "w", "x", "y", "z">>

IsDigit(c) == \E i \in 1..Len(DigitSeq) : DigitSeq[i] = c
DigitVal(c) == (CHOOSE i \in 1..Len(DigitSeq) : DigitSeq[i] = c) - 1
IsUpper(c) == \E i \in 1..Len(UpperSeq) : UpperSeq[i] = c
\* \s of a pattern, and what trim() removes: the white space and the line
\* terminators of the language
WhiteSpace ==
  {" ", "\t", "\n", "\r", "\f", "U+000B", "U+00A0", "U+1680", "U+2000", "U+2001", "U+2002",
   "U+2003", "U+2004", "U+2005", "U+2006", "U+2007", "U+2008", "U+2009", "U+200A", "U+2028",
   "U+2029", "U+202F", "U+205F", "U+3000", "U+FEFF"}
IsSpace(c) == c \in WhiteSpace

ToLower(c) == IF IsUpper(c) THEN LowerSeq[CHOOSE i \in 1..Len(UpperSeq) : UpperSeq[i] = c] ELSE c
toLowerCase(s) == [i \in 1..Len(s) |-> ToLower(s[i])]

\* The character classes of the patterns: the characters listed, or
\* (negated) every character but those
DigitClass == [negated |-> FALSE, chars |-> {DigitSeq[i] : i \in 1..Len(DigitSeq)}]
LetterClass ==
  [negated |-> FALSE,
   chars |-> {UpperSeq[i] : i \in 1..Len(UpperSeq)} \cup {LowerSeq[i] : i \in 1..Len(LowerSeq)}]
SpaceClass == [negated |-> FALSE, chars |-> WhiteSpace]
QuoteClass == [negated |-> FALSE, chars |-> {"'", "\""}]
InClass(class, c) == (c \in class.chars) # class.negated

Min(S) == CHOOSE x \in S : \A y \in S : x <= y
CharAt(s, i) == IF i >= 1 /\ i <= Len(s) THEN s[i] ELSE ""

\* A greedy run of a character class from position i: the first position
\* at or after i that is past the end or outside the class.
SpanEnd(s, i, class) ==
  Min({j \in i..(Len(s) + 1) : j = Len(s) + 1 \/ ~InClass(class, s[j])})

\* A literal of a case-insensitive (/i) pattern at position i; lit is lower case.
LitAt(s, i, lit) ==
  /\ i + Len(lit) - 1 <= Len(s)
  /\ \A k \in 1..Len(lit) : ToLower(s[i + k - 1]) = lit[k]

\* The digits of the radixes a number can be written in
HexSeq == <<"0", "1", "2", "3", "4", "5", "6", "7", "8", "9", "a", "b", "c", "d", "e", "f">>
IsRadixDigit(c, radix) == \E i \in 1..radix : HexSeq[i] = ToLower(c)
RadixVal(c) == (CHOOSE i \in 1..Len(HexSeq) : HexSeq[i] = ToLower(c)) - 1

-----------------------------------------------------------------------------
(* Numbers: IEEE 754 doubles                                               *)

Abs(x) == IF x < 0 THEN -x ELSE x
Max(S) == CHOOSE x \in S : \A y \in S : y <= x

\* A natural number of any size is the sequence of its digits in base
\* 2^15, the least significant first, without a leading zero: <<>> is 0.
Base == 2^15
BaseBits == 15

RECURSIVE BigFromInt(_)
BigFromInt(n) == IF n = 0 THEN <<>> ELSE <<n % Base>> \o BigFromInt(n \div Base)

\* without the leading zeros
BigNorm(a) == SubSeq(a, 1, Max({0} \cup {k \in 1..Len(a) : a[k] # 0}))

Limb(a, k) == IF k >= 1 /\ k <= Len(a) THEN a[k] ELSE 0

\* the carry into digit k of a + b: the nearest digit below k that does not
\* pass a carry on makes one
CarryIn(a, b, k) ==
  LET stops == {j \in 1..(k - 1) : Limb(a, j) + Limb(b, j) # Base - 1}
  IN  stops # {} /\ Limb(a, Max(stops)) + Limb(b, Max(stops)) >= Base
BigAdd(a, b) ==
  LET n == IF Len(a) < Len(b) THEN Len(b) ELSE Len(a)
  IN  IF a = <<>> THEN b
      ELSE IF b = <<>> THEN a
      ELSE BigNorm([k \in 1..(n + 1) |->
                 (Limb(a, k) + Limb(b, k) + (IF CarryIn(a, b, k) THEN 1 ELSE 0)) % Base])

\* the borrow from digit k of a - b, and a - b for a >= b
BorrowFrom(a, b, k) ==
  LET stops == {j \in 1..(k - 1) : a[j] # Limb(b, j)}
  IN  stops # {} /\ a[Max(stops)] < Limb(b, Max(stops))
BigSub(a, b) ==
  IF b = <<>> THEN a
  ELSE BigNorm([k \in 1..Len(a) |->
             (a[k] - Limb(b, k) - (IF BorrowFrom(a, b, k) THEN 1 ELSE 0) + Base) % Base])

\* -1, 0 or 1 as a is less than, equal to or greater than b
BigCmp(a, b) ==
  IF Len(a) # Len(b) THEN (IF Len(a) < Len(b) THEN -1 ELSE 1)
  ELSE IF a = b THEN 0
  ELSE IF a[Max({k \in 1..Len(a) : a[k] # b[k]})] < b[Max({k \in 1..Len(a) : a[k] # b[k]})]
  THEN -1 ELSE 1

\* a * Base^n
BigShift(a, n) == IF a = <<>> THEN <<>> ELSE [i \in 1..n |-> 0] \o a

\* a * k for k below the base
BigMulSmall(a, k) ==
  IF a = <<>> \/ k = 0 THEN <<>>
  ELSE BigAdd(BigNorm([i \in 1..Len(a) |-> (a[i] * k) % Base]),
              BigShift(BigNorm([i \in 1..Len(a) |-> (a[i] * k) \div Base]), 1))

\* a * b, by halves of b
RECURSIVE BigMul(_, _)
BigMul(a, b) ==
  IF a = <<>> \/ b = <<>> THEN <<>>
  ELSE IF Len(b) = 1 THEN BigMulSmall(a, b[1])
  ELSE BigAdd(BigMul(a, BigNorm(SubSeq(b, 1, Len(b) \div 2))),
              BigShift(BigMul(a, SubSeq(b, Len(b) \div 2 + 1, Len(b))), Len(b) \div 2))

\* a * 2^s and the integer part of a / 2^s
BigShl(a, s) == IF a = <<>> THEN <<>> ELSE BigShift(BigMulSmall(a, 2^(s % BaseBits)), s \div BaseBits)
BigShr(a, s) ==
  LET w == s \div BaseBits
      r == s % BaseBits
  IN  IF a = <<>> THEN <<>> ELSE
      BigNorm([k \in 1..(Len(a) - w) |->
                 a[k + w] \div 2^r + (Limb(a, k + w + 1) % 2^r) * 2^(BaseBits - r)])

RECURSIVE IntBits(_)
IntBits(n) == IF n = 0 THEN 0 ELSE 1 + IntBits(n \div 2)
\* the number of binary digits of a
BitLen(a) == IF a = <<>> THEN 0 ELSE BaseBits * (Len(a) - 1) + IntBits(a[Len(a)])

\* the binary digits hi down to lo of the quotient of n by d, as a number
\* (q), and what is left of n (r); n < d * 2^(hi + 1).  By halves.
RECURSIVE BigDivBits(_, _, _, _)
BigDivBits(n, d, hi, lo) ==
  LET shifted == BigShl(d, hi)
      mid == (hi + lo + 1) \div 2
      upper == BigDivBits(n, d, hi, mid)
      lower == BigDivBits(upper.r, d, mid - 1, lo)
  IN  IF hi < lo THEN [q |-> <<>>, r |-> n]
      ELSE IF hi > lo THEN [q |-> BigAdd(upper.q, lower.q), r |-> lower.r]
      ELSE IF BigCmp(n, shifted) >= 0 THEN [q |-> BigShift(<<2^(hi % BaseBits)>>, hi \div BaseBits),
                                            r |-> BigSub(n, shifted)]
      ELSE [q |-> <<>>, r |-> n]

\* The digits a of a number divided by k below the base, from the top
\* digit down, with r < k carried in from above: the digits of the
\* quotient, as many as a has, and what is left.  By halves.
RECURSIVE BigDivSmall(_, _, _)
BigDivSmall(a, k, r) ==
  LET half == Len(a) \div 2
      upper == BigDivSmall(SubSeq(a, half + 1, Len(a)), k, r)
      lower == BigDivSmall(SubSeq(a, 1, half), k, upper.r)
  IN  IF a = <<>> THEN [q |-> <<>>, r |-> r]
      ELSE IF Len(a) = 1 THEN [q |-> <<(r * Base + a[1]) \div k>>, r |-> (r * Base + a[1]) % k]
      ELSE [q |-> lower.q \o upper.q, r |-> lower.r]

\* quotient and remainder of n by d > 0
BigDivMod(n, d) ==
  IF Len(d) = 1
  THEN [q |-> BigNorm(BigDivSmall(n, d[1], 0).q), r |-> BigFromInt(BigDivSmall(n, d[1], 0).r)]
  ELSE BigDivBits(n, d, BitLen(n) - BitLen(d), 0)

BigSquare(a) == BigMul(a, a)
\* k^n for k below the base, by squaring
RECURSIVE BigPow(_, _)
BigPow(k, n) ==
  IF n = 0 THEN <<1>>
  ELSE IF n % 2 = 0 THEN BigSquare(BigPow(k, n \div 2))
  ELSE BigMulSmall(BigPow(k, n - 1), k)

\* the number of zeros at the low end of the binary digits of a # 0
RECURSIVE IntTrailingZeros(_)
IntTrailingZeros(n) == IF n % 2 = 1 THEN 0 ELSE 1 + IntTrailingZeros(n \div 2)
TrailingZeros(a) ==
  LET k == CHOOSE k \in 1..Len(a) : a[k] # 0 /\ \A j \in 1..(k - 1) : a[j] = 0
  IN  BaseBits * (k - 1) + IntTrailingZeros(a[k])

\* A double is (-1)^neg * m * 2^e with m odd and below 2^53, or 0, or an
\* infinity, or NaN; equal numbers are equal records (-0 is held as 0).
Zero == [kind |-> "fin", neg |-> FALSE, m |-> <<>>, e |-> 0]
Infinity == [kind |-> "inf", neg |-> FALSE, m |-> <<>>, e |-> 0]
NegInfinity == [kind |-> "inf", neg |-> TRUE, m |-> <<>>, e |-> 0]
NaN == [kind |-> "nan", neg |-> FALSE, m |-> <<>>, e |-> 0]
Precision == 53
MinExponent == -1074
MaxBits == 1024

\* m * 2^e with the zeros at the low end of m moved into e
Canon(neg, m, e) ==
  IF m = <<>> THEN Zero
  ELSE [kind |-> "fin", neg |-> neg, m |-> BigShr(m, TrailingZeros(m)),
        e |-> e + TrailingZeros(m)]

\* m * 2^e, or the infinity when it is beyond the largest double
Finite(neg, m, e) ==
  IF BitLen(m) + e > MaxBits THEN (IF neg THEN NegInfinity ELSE Infinity)
  ELSE Canon(neg, m, e)

\* n / d with the scale s it is taken at: the integer part q of
\* n * 2^s / d and whether anything is left over.  Nothing is divided
\* when d is 1.
Quotient(n, d, s) ==
  LET shifted == BigShl(IF s >= 0 THEN n ELSE d, Abs(s))
      qr == BigDivMod(IF s >= 0 THEN shifted ELSE n, IF s >= 0 THEN d ELSE shifted)
  IN  IF d = <<1>> THEN [q |-> n, exact |-> TRUE, s |-> 0]
      ELSE [q |-> qr.q, exact |-> qr.r = <<>>, s |-> s]

\* The low binary digits of q * 2^x that a double has no room for: what
\* leaves 53 digits, or fewer when the result is subnormal
Dropped(q, x) ==
  IF x + BitLen(q) - Precision < MinExponent THEN MinExponent - x ELSE BitLen(q) - Precision

\* above / 2 rounded to the nearest integer; on a tie, to the even one
HalfEven(above, tie) ==
  BigShr(BigAdd(above, IF Limb(above, 1) % 2 = 1 /\ (~tie \/ Limb(above, 1) % 4 = 3)
                       THEN <<1>> ELSE <<>>), 1)

\* (q + f) * 2^x rounded, f being 0 when exact and strictly between 0
\* and 1 otherwise; k is the number of low digits of q to drop
RoundBits(neg, q, exact, x, k) ==
  Finite(neg,
         IF k <= 0 THEN q ELSE HalfEven(BigShr(q, k - 1), exact /\ TrailingZeros(q) >= k - 1),
         IF k <= 0 THEN x ELSE x + k)

RoundQuotient(neg, qr, x) ==
  RoundBits(neg, qr.q, qr.exact, x - qr.s, Dropped(qr.q, x - qr.s))

\* n / d * 2^x (d > 0) rounded to the nearest double, ties to the even
\* one; the quotient is taken to 54 or 55 binary digits
Round(neg, n, d, x) ==
  IF n = <<>> THEN Zero
  ELSE RoundQuotient(neg, Quotient(n, d, Precision + 1 - (BitLen(n) - BitLen(d))), x)

\* the double of an integer and the double nearest to n / d
DFromInt(n) == Canon(n < 0, BigFromInt(Abs(n)), 0)
Nearest(n, d) == Round(n < 0, BigFromInt(Abs(n)), BigFromInt(d), 0)

DNeg(x) == IF x.kind = "nan" \/ x = Zero THEN x ELSE [x EXCEPT !.neg = ~x.neg]
DAbs(x) == [x EXCEPT !.neg = FALSE]

\* x op y when x or y is an infinity and neither is NaN
Unbounded(op, x, y) ==
  CASE op = "+" -> IF x.kind = "fin" THEN y
                   ELSE IF y.kind = "inf" /\ y.neg # x.neg THEN NaN ELSE x
    [] op = "-" -> IF x.kind = "fin" THEN DNeg(y)
                   ELSE IF y.kind = "inf" /\ y.neg = x.neg THEN NaN ELSE x
    [] op = "*" -> IF x = Zero \/ y = Zero THEN NaN
                   ELSE IF x.neg # y.neg THEN NegInfinity ELSE Infinity
    [] OTHER -> IF x.kind = "fin" THEN Zero
                ELSE IF y.kind = "inf" THEN NaN
                ELSE IF x.neg # y.neg THEN NegInfinity ELSE Infinity

\* the magnitudes of x and y as integers a and b times 2^e
Aligned(x, y) ==
  LET shifted == BigShl(IF x.e < y.e THEN y.m ELSE x.m, Abs(x.e - y.e))
  IN  [a |-> IF x.e < y.e THEN x.m ELSE shifted,
       b |-> IF x.e < y.e THEN shifted ELSE y.m,
       e |-> IF x.e < y.e THEN x.e ELSE y.e]

\* x < y
Below(x, y, al) ==
  IF x.neg # y.neg THEN x.neg
  ELSE IF x.neg THEN BigCmp(al.a, al.b) > 0 ELSE BigCmp(al.a, al.b) < 0
DLess(x, y) ==
  IF x.kind = "nan" \/ y.kind = "nan" \/ x = y THEN FALSE
  ELSE IF x.kind = "inf" THEN x.neg
  ELSE IF y.kind = "inf" THEN ~y.neg
  ELSE Below(x, y, Aligned(x, y))

\* x + y of finite x and y, exactly: sign, integer and power of two
ExactSum(x, y, al) ==
  IF x.neg = y.neg THEN [neg |-> x.neg, n |-> BigAdd(al.a, al.b), d |-> <<1>>, e |-> al.e]
  ELSE IF BigCmp(al.a, al.b) >= 0
  THEN [neg |-> x.neg, n |-> BigSub(al.a, al.b), d |-> <<1>>, e |-> al.e]
  ELSE [neg |-> y.neg, n |-> BigSub(al.b, al.a), d |-> <<1>>, e |-> al.e]

\* x op y of finite x and y, exactly: sign, numerator, denominator, power
Exact(op, x, y) ==
  CASE op = "+" -> ExactSum(x, y, Aligned(x, y))
    [] op = "-" -> ExactSum(x, DNeg(y), Aligned(x, y))
    [] op = "*" -> [neg |-> x.neg # y.neg, n |-> BigMul(x.m, y.m), d |-> <<1>>, e |-> x.e + y.e]
    [] OTHER -> [neg |-> x.neg # y.neg, n |-> x.m, d |-> y.m, e |-> x.e - y.e]

RoundExact(r) == Round(r.neg, r.n, r.d, r.e)

\* x op y for op one of + - * /: the exact result, rounded
Arithmetic(op, x, y) ==
  IF x.kind = "nan" \/ y.kind = "nan" THEN NaN
  ELSE IF x.kind = "inf" \/ y.kind = "inf" THEN Unbounded(op, x, y)
  ELSE IF op = "/" /\ y = Zero
  THEN (IF x = Zero THEN NaN ELSE IF x.neg THEN NegInfinity ELSE Infinity)
  ELSE RoundExact(Exact(op, x, y))

\* the value of a run of digits in the given radix, by halves
RECURSIVE BigFromDigits(_, _)
BigFromDigits(ds, radix) ==
  IF ds = <<>> THEN <<>>
  ELSE IF Len(ds) = 1 THEN BigFromInt(RadixVal(ds[1]))
  ELSE BigAdd(BigMul(BigFromDigits(SubSeq(ds, 1, Len(ds) \div 2), radix),
                     BigPow(radix, Len(ds) - Len(ds) \div 2)),
              BigFromDigits(SubSeq(ds, Len(ds) \div 2 + 1, Len(ds)), radix))

\* the digits without the zeros in front
StripZeros(ds) ==
  IF \A k \in 1..Len(ds) : ds[k] = "0" THEN <<>>
  ELSE SubSeq(ds, Min({k \in 1..Len(ds) : ds[k] # "0"}), Len(ds))

\* Powers of ten beyond these give Infinity or 0 whatever the digits
MaxDecimal == 310
MinDecimal == -330

\* value * 10^scale as a double, power being 5^|scale|
Scaled(neg, value, power, scale) ==
  Round(neg, IF scale > 0 THEN BigMul(value, power) ELSE value,
        IF scale < 0 THEN power ELSE <<1>>, scale)

\* sig, read in the radix, times 10^scale as a double; sig has no zero in
\* front
Significant(neg, sig, radix, scale) ==
  IF sig = <<>> THEN Zero
  ELSE IF scale > MaxDecimal THEN (IF neg THEN NegInfinity ELSE Infinity)
  ELSE IF Len(sig) + scale < MinDecimal THEN Zero
  ELSE Scaled(neg, BigFromDigits(sig, radix), BigPow(5, Abs(scale)), scale)

\* digits, read in the radix, times 10^scale as a double: the nearest to
\* the exact value
NumeralValue(neg, digits, radix, scale) == Significant(neg, StripZeros(digits), radix, scale)

\* parseInt of a run of decimal digits
parseInt(ds) == NumeralValue(FALSE, ds, 10, 0)

NoMatch == [ok |-> FALSE]

-----------------------------------------------------------------------------
(* analyzePrompt: the three templates                                      *)

\* Matching a pattern from left to right: a match in progress is the
\* position reached (pos), where the last run began (from) and the last
\* single character captured (cap).
Start(i) == [ok |-> TRUE, pos |-> i, from |-> i, cap |-> ""]
Fail == [ok |-> FALSE, pos |-> 0, from |-> 0, cap |-> ""]
\* a literal
Lit(s, st, lit) ==
  IF st.ok /\ LitAt(s, st.pos, lit) THEN [st EXCEPT !.pos = @ + Len(lit)] ELSE Fail
\* (?:lit)?
OptLit(s, st, lit) ==
  IF st.ok /\ LitAt(s, st.pos, lit) THEN [st EXCEPT !.pos = @ + Len(lit)] ELSE st
\* (?:lit1|lit2)
Alt(s, st, lit1, lit2) ==
  IF st.ok /\ LitAt(s, st.pos, lit1) THEN [st EXCEPT !.pos = @ + Len(lit1)]
  ELSE IF st.ok /\ LitAt(s, st.pos, lit2) THEN [st EXCEPT !.pos = @ + Len(lit2)]
  ELSE Fail
\* [class]?
OptClass(s, st, class) ==
  IF st.ok /\ st.pos <= Len(s) /\ InClass(class, s[st.pos]) THEN [st EXCEPT !.pos = @ + 1] ELSE st
\* ([class])
One(s, st, class) ==
  IF st.ok /\ st.pos <= Len(s) /\ InClass(class, s[st.pos])
  THEN [st EXCEPT !.pos = @ + 1, !.cap = s[st.pos]] ELSE Fail
\* ([class]*) and ([class]+), greedy
Many0(s, st, class) ==
  IF st.ok THEN [st EXCEPT !.pos = SpanEnd(s, st.pos, class), !.from = st.pos] ELSE Fail
Many1(s, st, class) ==
  IF st.ok /\ st.pos <= Len(s) /\ InClass(class, s[st.pos])
  THEN [st EXCEPT !.pos = SpanEnd(s, st.pos, class), !.from = st.pos] ELSE Fail
Captured(s, st) == SubSeq(s, st.from, st.pos - 1)


\* /how many (?:of the )?(?:letter|character)s? ['"]?([a-zA-Z])['"]?
\*  (?:is|are) (?:there )?in (?:the word )?['"]?(\w+)['"]?/i  at position i.
\* Every optional group but "(?:the word )?" is decided by the next
\* character: what must follow it when it is skipped cannot start the way
\* the group does.  "the word " is taken when a word follows it, and
\* otherwise skipped, which captures "the" as the word.
\* ... up to the captured letter
LetterToLetter(s, i) ==
  One(s, OptClass(s, Lit(s, OptClass(s, Alt(s, OptLit(s, Lit(s, Start(i),
      <<"h", "o", "w", " ", "m", "a", "n", "y", " ">>), <<"o", "f", " ", "t", "h", "e", " ">>), <<"l", "e", "t", "t", "e", "r">>, <<"c", "h", "a", "r", "a", "c", "t", "e", "r">>),
      [negated |-> FALSE, chars |-> {"s", "S"}]), <<" ">>), QuoteClass), LetterClass)
\* ... up to "in "
LetterToIn(s, i) ==
  Lit(s, OptLit(s, Lit(s, Alt(s, Lit(s, OptClass(s, LetterToLetter(s, i),
      QuoteClass), <<" ">>), <<"i", "s">>, <<"a", "r", "e">>), <<" ">>), <<"t", "h", "e", "r", "e", " ">>), <<"i", "n", " ">>)
\* ['"]?(\w+)
LetterWord(s, st) ==
  Many1(s, OptClass(s, st, QuoteClass),
        [negated |-> FALSE, chars |-> LetterClass.chars \cup DigitClass.chars \cup {"_"}])

\* the first of two ways to go on that matches
Either(first, second) == IF first.ok THEN first ELSE second
\* (?:the word )?['"]?(\w+) after the match st
LetterTail(s, st) == Either(LetterWord(s, Lit(s, st, <<"t", "h", "e", " ", "w", "o", "r", "d", " ">>)), LetterWord(s, st))
\* the groups of the match that ends with tail
LetterGroups(s, tail) ==
  IF tail.ok THEN [ok |-> TRUE, letter |-> tail.cap, word |-> Captured(s, tail)] ELSE NoMatch

LetterMatchAt(s, i) == LetterGroups(s, LetterTail(s, LetterToIn(s, i)))

\* of the matches at every position, the leftmost
FirstMatch(all) ==
  LET hits == {i \in DOMAIN all : all[i].ok}
  IN  IF hits = {} THEN NoMatch ELSE all[Min(hits)]

letterMatch(s) == FirstMatch([i \in 1..Len(s) |-> LetterMatchAt(s, i)])

\* (word.toLowerCase().match(new RegExp(letter.toLowerCase(), 'g')) || []).length
letterCorrectCount(letter, word) ==
  Cardinality({k \in 1..Len(word) : toLowerCase(word)[k] = ToLower(letter)})

\* /how many words (?:is|are) (?:there )?in ['"]?([^'"]+)['"]?/i at position i
WordToPhrase(s, i) ==
  Many1(s, OptClass(s, Lit(s, OptLit(s, Lit(s, Alt(s, Lit(s, Start(i),
      <<"h", "o", "w", " ", "m", "a", "n", "y", " ", "w", "o", "r", "d", "s", " ">>), <<"i", "s">>, <<"a", "r", "e">>), <<" ">>), <<"t", "h", "e", "r", "e", " ">>), <<"i", "n", " ">>),
      QuoteClass), [negated |-> TRUE, chars |-> QuoteClass.chars])
WordGroups(s, m) == IF m.ok THEN [ok |-> TRUE, phrase |-> Captured(s, m)] ELSE NoMatch
WordMatchAt(s, i) == WordGroups(s, WordToPhrase(s, i))

wordMatch(s) == FirstMatch([i \in 1..Len(s) |-> WordMatchAt(s, i)])

\* phrase.trim()
trim(s) ==
  LET keep == {k \in 1..Len(s) : ~IsSpace(s[k])}
  IN  IF keep = {} THEN <<>> ELSE SubSeq(s, Min(keep), CHOOSE x \in keep : \A y \in keep : y <= x)

\* s.split(/\s+/).length: one piece more than there are runs of white space
splitLength(s) ==
  1 + Cardinality({k \in 1..Len(s) : IsSpace(s[k]) /\ ~IsSpace(CharAt(s, k - 1))})

wordCorrectCount(phrase) == splitLength(trim(phrase))

\* /what is (\d+)\s*([\+\-\*\/])\s*(\d+)/i at position i; digits, white
\* space and operators are disjoint classes, so the greedy runs never back off
MathToNum1(s, i) == Many1(s, Lit(s, Start(i), <<"w", "h", "a", "t", " ", "i", "s", " ">>), DigitClass)
MathToNum2(s, m1) ==
  Many1(s, Many0(s, One(s, Many0(s, m1, SpaceClass),
                        [negated |-> FALSE, chars |-> {"+", "-", "*", "/"}]),
                 SpaceClass), DigitClass)
MathGroups(s, m1, m) ==
  IF m.ok
  THEN [ok |-> TRUE, num1 |-> Captured(s, m1), operator |-> m.cap, num2 |-> Captured(s, m)]
  ELSE NoMatch
MathFrom(s, m1) == MathGroups(s, m1, MathToNum2(s, m1))
MathMatchAt(s, i) == MathFrom(s, MathToNum1(s, i))

mathMatch(s) == FirstMatch([i \in 1..Len(s) |-> MathMatchAt(s, i)])

\* the integer part of x
DTrunc(x) ==
  IF x.kind # "fin" \/ x.e >= 0 THEN x ELSE Canon(x.neg, BigShr(x.m, -x.e), 0)

\* the switch with a division that drops the remainder
mathCorrectAnswer_Truncating(a, operator, b) ==
  LET result == Arithmetic(operator, a, b)
  IN  IF operator \notin {"+", "-", "*", "/"} THEN Zero
      ELSE IF operator = "/" THEN DTrunc(result)
      ELSE result

\* the switch on the operator; a and b are parseInt of runs of digits
mathCorrectAnswer(a, operator, b) ==
  IF operator \in {"+", "-", "*", "/"} THEN Arithmetic(operator, a, b) ELSE Zero

\* The templates are tried in this order and the first that matches decides.
PromptAnalysis(lm, wm, mm) ==
  IF lm.ok
  THEN [type |-> "objective", template |-> "letter",
        correctAnswer |-> DFromInt(letterCorrectCount(lm.letter, lm.word))]
  ELSE IF wm.ok
  THEN [type |-> "objective", template |-> "word",
        correctAnswer |-> DFromInt(wordCorrectCount(wm.phrase))]
  ELSE IF mm.ok
  THEN [type |-> "objective", template |-> "math",
        correctAnswer |-> mathCorrectAnswer(parseInt(mm.num1), mm.operator, parseInt(mm.num2))]
  ELSE [type |-> "subjective", template |-> "none", correctAnswer |-> NaN]

analyzePrompt(p) == PromptAnalysis(letterMatch(p), wordMatch(p), mathMatch(p))

-----------------------------------------------------------------------------
(* The scoring closures                                                    *)

\* response.match(/\d+/): the first run of digits, or NoMatch
digitsMatch(s) ==
  LET hits == {i \in 1..Len(s) : IsDigit(s[i])}
  IN  IF hits = {} THEN NoMatch
      ELSE [ok |-> TRUE, text |-> SubSeq(s, Min(hits), SpanEnd(s, Min(hits), DigitClass) - 1)]

\* response.match(/-?\d+\.?\d*/): the first digit, with a minus sign right
\* before it, then the digits, a point and the digits after it
numberMatch(s) ==
  LET hits == {i \in 1..Len(s) : IsDigit(s[i]) \/ (s[i] = "-" /\ IsDigit(CharAt(s, i + 1)))}
      i0 == Min(hits)
      j == IF s[i0] = "-" THEN i0 + 1 ELSE i0
      e1 == SpanEnd(s, j, DigitClass)
      e2 == IF CharAt(s, e1) = "." THEN SpanEnd(s, e1 + 1, DigitClass) ELSE e1
  IN  IF hits = {} THEN NoMatch ELSE [ok |-> TRUE, text |-> SubSeq(s, i0, e2 - 1)]

\* parseFloat of a text of the shape -?\d+\.?\d*
parseFloat(t) ==
  LET neg == t[1] = "-"
      body == IF neg THEN Tail(t) ELSE t
      e == SpanEnd(body, 1, DigitClass)
      int == SubSeq(body, 1, e - 1)
      frac == SubSeq(body, e + 1, Len(body))
  IN  NumeralValue(neg, int \o frac, 10, -Len(frac))

\* the literal 0.01
Tolerance == Nearest(1, 100)

\* Math.abs(x - y) < 0.01; false as soon as Infinity or NaN is involved
WithinTolerance(x, y) == DLess(DAbs(Arithmetic("-", x, y)), Tolerance)

\* x === y on numbers
SameCount(x, y) == x.kind # "nan" /\ x = y

\* promptAnalysis.evaluationFunction(response): 1 or 0
evaluationFunction(analysis, r) ==
  IF analysis.template = "math"
  THEN LET numbers == numberMatch(r)
       IN  IF ~numbers.ok THEN 0
           ELSE IF WithinTolerance(parseFloat(numbers.text), analysis.correctAnswer) THEN 1 ELSE 0
  ELSE LET numbers == digitsMatch(r)
       IN  IF ~numbers.ok THEN 0
           ELSE IF SameCount(parseInt(numbers.text), analysis.correctAnswer) THEN 1 ELSE 0

-----------------------------------------------------------------------------
(* The judge's answer and the scores read from it                          *)

\* content.match(/\{[\s\S]*\}/): from the first "{" to the last "}" after it
jsonMatch(content) ==
  LET opens == {i \in 1..Len(content) : content[i] = "{"}
      closes == {i \in 1..Len(content) : content[i] = "}" /\ opens # {} /\ i > Min(opens)}
  IN  IF closes = {} THEN NoMatch
      ELSE [ok |-> TRUE, text |-> SubSeq(content, Min(opens), Max(closes))]

\* The values of JSON
JNumber(n) == [t |-> "number", n |-> n]
JString(s) == [t |-> "string", s |-> s]
JTrue == [t |-> "true"]
JFalse == [t |-> "false"]
JNull == [t |-> "null"]
JObject(members) == [t |-> "object", members |-> members]
JArray(items) == [t |-> "array", items |-> items]
Undefined == [t |-> "undefined"]

\* What reading a value gives: the value and the position after it, or a
\* SyntaxError
Parsed(v, pos) == [ok |-> TRUE, v |-> v, pos |-> pos]
SyntaxError == [ok |-> FALSE, v |-> Undefined, pos |-> 0]

\* the white space JSON allows between tokens
SkipSpace(s, i) == SpanEnd(s, i, [negated |-> FALSE, chars |-> {" ", "\t", "\n", "\r"}])

\* the characters below U+0020, which a JSON string cannot hold unescaped
ControlChars ==
  {"\t", "\n", "\f", "\r", "U+0000", "U+0001", "U+0002", "U+0003", "U+0004", "U+0005",
   "U+0006", "U+0007", "U+0008", "U+000B", "U+000E", "U+000F", "U+0010", "U+0011",
   "U+0012", "U+0013", "U+0014", "U+0015", "U+0016", "U+0017", "U+0018", "U+0019",
   "U+001A", "U+001B", "U+001C", "U+001D", "U+001E", "U+001F"}

\* The characters of the code points that have a name here; every other
\* code point outside ASCII is held as OtherChar
Ascii ==
  <<" ", "!", "\"", "#", "$", "%", "&", "'", "(", ")", "*", "+", ",", "-", ".", "/", "0", "1", "2", "3", "4", "5", "6", "7", "8", "9", ":", ";", "<", "=", ">", "?">> \o <<"@">> \o <<"A", "B", "C", "D", "E", "F", "G", "H", "I", "J", "K", "L", "M", "N", "O", "P", "Q", "R", "S", "T", "U", "V", "W", "X", "Y", "Z", "[", "\\", "]", "^", "_">>
    \o <<"U+0060">> \o <<"a", "b", "c", "d", "e", "f", "g", "h", "i", "j", "k", "l", "m", "n", "o", "p", "q", "r", "s", "t", "u", "v", "w", "x", "y", "z", "{", "|", "}", "~">>
NamedChars ==
  <<<<0, "U+0000">>, <<1, "U+0001">>, <<2, "U+0002">>, <<3, "U+0003">>, <<4, "U+0004">>,
    <<5, "U+0005">>, <<6, "U+0006">>, <<7, "U+0007">>, <<8, "U+0008">>, <<9, "\t">>,
    <<10, "\n">>, <<11, "U+000B">>, <<12, "\f">>, <<13, "\r">>, <<14, "U+000E">>,
    <<15, "U+000F">>, <<16, "U+0010">>, <<17, "U+0011">>, <<18, "U+0012">>,
    <<19, "U+0013">>, <<20, "U+0014">>, <<21, "U+0015">>, <<22, "U+0016">>,
    <<23, "U+0017">>, <<24, "U+0018">>, <<25, "U+0019">>, <<26, "U+001A">>,
    <<27, "U+001B">>, <<28, "U+001C">>, <<29, "U+001D">>, <<30, "U+001E">>,
    <<31, "U+001F">>, <<160, "U+00A0">>, <<5760, "U+1680">>, <<8192, "U+2000">>,
    <<8193, "U+2001">>, <<8194, "U+2002">>, <<8195, "U+2003">>, <<8196, "U+2004">>,
    <<8197, "U+2005">>, <<8198, "U+2006">>, <<8199, "U+2007">>, <<8200, "U+2008">>,
    <<8201, "U+2009">>, <<8202, "U+200A">>, <<8232, "U+2028">>, <<8233, "U+2029">>,
    <<8239, "U+202F">>, <<8287, "U+205F">>, <<12288, "U+3000">>, <<65279, "U+FEFF">>>>
OtherChar == "U+FFFD"
CharOfCode(code) ==
  IF code >= 32 /\ code <= 126 THEN Ascii[code - 31]
  ELSE IF \E k \in 1..Len(NamedChars) : NamedChars[k][1] = code
  THEN NamedChars[CHOOSE k \in 1..Len(NamedChars) : NamedChars[k][1] = code][2]
  ELSE OtherChar

\* the number of backslashes right before position k, from position lo on
BackslashesBefore(s, lo, k) ==
  LET others == {j \in lo..(k - 1) : s[j] # "\\"}
  IN  IF others = {} THEN k - lo ELSE k - 1 - Max(others)

\* In the characters c between the quotes of a string: an escape starts at
\* a backslash that no backslash before it escapes, and takes the character
\* after it, and four more after a "u"
EscapeStart(c, p) == p >= 1 /\ c[p] = "\\" /\ BackslashesBefore(c, 1, p) % 2 = 0
InEscape(c, p) ==
  \/ EscapeStart(c, p - 1)
  \/ \E q \in 2..5 : EscapeStart(c, p - q) /\ c[p - q + 1] = "u"
EscapeValid(c, p) ==
  /\ CharAt(c, p + 1) \in {"\"", "\\", "/", "b", "f", "n", "r", "t", "u"}
  /\ CharAt(c, p + 1) = "u" =>
       /\ p + 5 <= Len(c)
       /\ \A q \in 2..5 : IsRadixDigit(c[p + q], 16)
Unescape(c, p) ==
  CASE c[p + 1] = "b" -> "U+0008"
    [] c[p + 1] = "f" -> "\f"
    [] c[p + 1] = "n" -> "\n"
    [] c[p + 1] = "r" -> "\r"
    [] c[p + 1] = "t" -> "\t"
    [] c[p + 1] = "u" ->
         CharOfCode(4096 * RadixVal(c[p + 2]) + 256 * RadixVal(c[p + 3])
                      + 16 * RadixVal(c[p + 4]) + RadixVal(c[p + 5]))
    [] OTHER -> c[p + 1]

\* a JSON string that opens at the quote at position i
JSONstring(s, i) ==
  LET ends == {k \in (i + 1)..Len(s) : s[k] = "\"" /\ BackslashesBefore(s, i + 1, k) % 2 = 0}
      c == SubSeq(s, i + 1, Min(ends) - 1)
      starts == {p \in 1..Len(c) : ~InEscape(c, p)}
      valid == \A p \in starts : IF EscapeStart(c, p) THEN EscapeValid(c, p)
                                  ELSE c[p] \notin ControlChars
      at == [k \in 1..Cardinality(starts) |->
               CHOOSE p \in starts : Cardinality({q \in starts : q <= p}) = k]
  IN  IF ends = {} THEN SyntaxError
      ELSE IF ~valid THEN SyntaxError
      ELSE Parsed(JString([k \in 1..Cardinality(starts) |->
                             IF EscapeStart(c, at[k]) THEN Unescape(c, at[k]) ELSE c[at[k]]]),
                  Min(ends) + 1)

\* The power of ten a literal's digits are multiplied by: the exponent
\* written less the number of digits of the fraction, as a sign and a
\* natural number of any size
ScaleOf(expNeg, written, fraction) ==
  IF expNeg THEN [neg |-> TRUE, n |-> BigAdd(written, fraction)]
  ELSE IF BigCmp(written, fraction) >= 0 THEN [neg |-> FALSE, n |-> BigSub(written, fraction)]
  ELSE [neg |-> TRUE, n |-> BigSub(fraction, written)]
RECURSIVE BigToInt(_)
BigToInt(n) == IF n = <<>> THEN 0 ELSE n[1] + Base * BigToInt(Tail(n))
\* That power as an integer.  Above MaxDecimal every power gives Infinity,
\* and below MinDecimal less the number of significant digits every power
\* gives 0: the first power beyond stands for all of them.
BoundedScale(scale, digits) ==
  IF ~scale.neg
  THEN IF BigCmp(scale.n, BigFromInt(MaxDecimal)) > 0 THEN MaxDecimal + 1 ELSE BigToInt(scale.n)
  ELSE IF BigCmp(scale.n, BigFromInt(digits - MinDecimal)) > 0 THEN MinDecimal - digits - 1
       ELSE -BigToInt(scale.n)

\* A decimal literal read from position i0 of s on: digits, a point and
\* digits, an exponent, each of them possibly missing.  The integer part
\* ends before i1, the fraction before i2; the digits of the exponent
\* are from i3 to before i4, where the literal ends.
Literal(s, neg, i0, i1, i2, hasExp, i3, i4) ==
  [neg |-> neg, int |-> SubSeq(s, i0, i1 - 1),
   hasPoint |-> i2 > i1, frac |-> SubSeq(s, i1 + 1, i2 - 1),
   hasExp |-> hasExp, expNeg |-> CharAt(s, i2 + 1) = "-", expDigits |-> SubSeq(s, i3, i4 - 1),
   end |-> i4]
LiteralExponent(s, neg, i0, i1, i2, hasExp, i3) ==
  Literal(s, neg, i0, i1, i2, hasExp, i3,
          IF ~hasExp THEN i2 ELSE IF i3 <= Len(s) THEN SpanEnd(s, i3, DigitClass) ELSE i3)
LiteralFraction(s, neg, i0, i1, i2) ==
  LiteralExponent(s, neg, i0, i1, i2, ToLower(CharAt(s, i2)) = "e",
                  IF CharAt(s, i2 + 1) \in {"+", "-"} THEN i2 + 2 ELSE i2 + 1)
LiteralInteger(s, neg, i0, i1) ==
  LiteralFraction(s, neg, i0, i1,
                  IF CharAt(s, i1) = "." THEN SpanEnd(s, i1 + 1, DigitClass) ELSE i1)

\* the number a literal denotes
LiteralValue(lit) ==
  NumeralValue(lit.neg, lit.int \o lit.frac, 10,
               BoundedScale(ScaleOf(lit.hasExp /\ lit.expNeg,
                                    IF lit.hasExp THEN BigFromDigits(StripZeros(lit.expDigits), 10)
                                    ELSE <<>>,
                                    BigFromInt(Len(lit.frac))),
                            Len(StripZeros(lit.int \o lit.frac))))

\* a JSON number at position i: -? (0 | [1-9]\d*) (\.\d+)? ([eE][+-]?\d+)?
JSONliteral(lit) ==
  IF lit.int # <<>> /\ (lit.hasPoint => lit.frac # <<>>) /\ (lit.hasExp => lit.expDigits # <<>>)
  THEN Parsed(JNumber(LiteralValue(lit)), lit.end)
  ELSE SyntaxError
JSONunsigned(s, neg, i0) ==
  JSONliteral(LiteralInteger(s, neg, i0,
                             IF CharAt(s, i0) = "0" THEN i0 + 1 ELSE SpanEnd(s, i0, DigitClass)))
JSONnumber(s, i) == JSONunsigned(s, s[i] = "-", IF s[i] = "-" THEN i + 1 ELSE i)

\* the characters of lit are at position i
ExactAt(s, i, lit) == i + Len(lit) - 1 <= Len(s) /\ SubSeq(s, i, i + Len(lit) - 1) = lit

\* A JSON value read from position i on, white space before it skipped;
\* the members of an object and the items of an array are read one after
\* the other (acc holds those read so far, i is at the next one)
RECURSIVE JSONvalue(_, _), JSONmembers(_, _, _), JSONitems(_, _, _)
\* the value that starts with the character c at position i
ValueAt(s, i, c, inner) ==
  CASE c = "{" -> IF CharAt(s, inner) = "}" THEN Parsed(JObject(<<>>), inner + 1)
                  ELSE JSONmembers(s, inner, <<>>)
    [] c = "[" -> IF CharAt(s, inner) = "]" THEN Parsed(JArray(<<>>), inner + 1)
                  ELSE JSONitems(s, inner, <<>>)
    [] c = "\"" -> JSONstring(s, i)
    [] c = "-" \/ IsDigit(c) -> JSONnumber(s, i)
    [] c = "t" /\ ExactAt(s, i, <<"t", "r", "u", "e">>) -> Parsed(JTrue, i + 4)
    [] c = "f" /\ ExactAt(s, i, <<"f", "a", "l", "s", "e">>) -> Parsed(JFalse, i + 5)
    [] c = "n" /\ ExactAt(s, i, <<"n", "u", "l", "l">>) -> Parsed(JNull, i + 4)
    [] OTHER -> SyntaxError
JSONvalue(s, i0) ==
  ValueAt(s, SkipSpace(s, i0), CharAt(s, SkipSpace(s, i0)), SkipSpace(s, SkipSpace(s, i0) + 1))
\* after the members acc, at next: a comma and more members, or the end
MembersEnd(s, members, next) ==
  IF CharAt(s, next) = "," THEN JSONmembers(s, SkipSpace(s, next + 1), members)
  ELSE IF CharAt(s, next) = "}" THEN Parsed(JObject(members), next + 1)
  ELSE SyntaxError
MemberValue(s, acc, name, val) ==
  IF ~val.ok THEN SyntaxError
  ELSE MembersEnd(s, Append(acc, [key |-> name, value |-> val.v]), SkipSpace(s, val.pos))
MemberKey(s, acc, key, colon) ==
  IF ~key.ok THEN SyntaxError
  ELSE IF CharAt(s, colon) # ":" THEN SyntaxError
  ELSE MemberValue(s, acc, key.v.s, JSONvalue(s, colon + 1))
JSONmembers(s, i, acc) ==
  IF CharAt(s, i) # "\"" THEN SyntaxError
  ELSE MemberKey(s, acc, JSONstring(s, i), SkipSpace(s, JSONstring(s, i).pos))
ItemsEnd(s, items, next) ==
  IF CharAt(s, next) = "," THEN JSONitems(s, SkipSpace(s, next + 1), items)
  ELSE IF CharAt(s, next) = "]" THEN Parsed(JArray(items), next + 1)
  ELSE SyntaxError
ItemValue(s, acc, val) ==
  IF ~val.ok THEN SyntaxError ELSE ItemsEnd(s, Append(acc, val.v), SkipSpace(s, val.pos))
JSONitems(s, i, acc) == ItemValue(s, acc, JSONvalue(s, i))

\* JSON.parse(text): one value with nothing but white space after it
WholeText(text, read) ==
  IF read.ok /\ SkipSpace(text, read.pos) = Len(text) + 1
  THEN [ok |-> TRUE, value |-> read.v]
  ELSE [ok |-> FALSE, value |-> Undefined]
JSONparse(text) == WholeText(text, JSONvalue(text, 1))

\* scores.accuracy: the last member of that name, or undefined
Property(object, name) ==
  LET at == {m \in 1..Len(object.members) : object.members[m].key = name}
  IN  IF at = {} THEN Undefined ELSE object.members[Max(at)].value

\* The number a text becomes when it is divided (the language's string to
\* number conversion): white space around it is dropped; the empty text is
\* 0; then Infinity with an optional sign, or an unsigned 0x, 0o or 0b
\* literal, or a decimal literal (sign, digits, point, digits, exponent);
\* anything else is NaN.
Radix(t) ==
  IF Len(t) >= 3 /\ t[1] = "0"
  THEN CASE ToLower(t[2]) = "x" -> 16
         [] ToLower(t[2]) = "o" -> 8
         [] ToLower(t[2]) = "b" -> 2
         [] OTHER -> 0
  ELSE 0
RadixLiteral(t, radix) ==
  IF \E k \in 3..Len(t) : ~IsRadixDigit(t[k], radix) THEN NaN
  ELSE NumeralValue(FALSE, SubSeq(t, 3, Len(t)), radix, 0)
DecimalLiteral(body, lit) ==
  IF /\ lit.int # <<>> \/ lit.frac # <<>>
     /\ lit.hasExp => lit.expDigits # <<>>
     /\ lit.end = Len(body) + 1
  THEN LiteralValue(lit)
  ELSE NaN
SignedLiteral(neg, body) ==
  IF body = <<"I", "n", "f", "i", "n", "i", "t", "y">> THEN (IF neg THEN NegInfinity ELSE Infinity)
  ELSE DecimalLiteral(body, LiteralInteger(body, neg, 1, SpanEnd(body, 1, DigitClass)))
TrimmedToNumber(t) ==
  IF t = <<>> THEN Zero
  ELSE IF Radix(t) # 0 THEN RadixLiteral(t, Radix(t))
  ELSE SignedLiteral(t[1] = "-", IF t[1] \in {"+", "-"} THEN Tail(t) ELSE t)
StringToNumber(str) == TrimmedToNumber(trim(str))

\* The number a JSON value becomes when it is divided: a number is itself,
\* null and false are 0, true is 1, a text is converted; an array is
\* converted as the text it is written as (its items joined by commas, null
\* as nothing), an object and undefined are NaN
RECURSIVE ToNumber(_)
ToNumber(v) ==
  CASE v.t = "number" -> v.n
    [] v.t = "string" -> StringToNumber(v.s)
    [] v.t = "true" -> DFromInt(1)
    [] v.t \in {"false", "null"} -> Zero
    [] v.t = "array" ->
         IF v.items = <<>> THEN Zero
         ELSE IF Len(v.items) > 1 THEN NaN
         ELSE IF v.items[1].t \in {"number", "string", "null", "array"} THEN ToNumber(v.items[1])
         ELSE NaN
    [] OTHER -> NaN

\* scores.accuracy / 100
Normalize(v) == Arithmetic("/", ToNumber(v), DFromInt(100))

\* the literal 0.5, which is 2^-1
Half == [kind |-> "fin", neg |-> FALSE, m |-> <<1>>, e |-> -1]
DefaultScores == [accuracy |-> Half, relevancy |-> Half, details |-> Null]

-----------------------------------------------------------------------------
(* evaluateWithRubric                                                      *)

\* the objective branch: no judge call
rubricObjective(analysis, r) ==
  [accuracy |-> DFromInt(evaluationFunction(analysis, r)),
   relevancy |-> DFromInt(IF digitsMatch(r).ok THEN 1 ELSE 0),
   details |-> "objective"]

\* the subjective branch once the judge call has returned or thrown;
\* content: evaluation.choices[0]?.message?.content?.trim() || ''
ScoresRead(scores) ==
  IF ~scores.ok THEN DefaultScores
  ELSE [accuracy |-> Normalize(Property(scores.value, <<"a", "c", "c", "u", "r", "a", "c", "y">>)),
        relevancy |-> Normalize(Property(scores.value, <<"r", "e", "l", "e", "v", "a", "n", "c", "y">>)),
        details |-> "subjective"]
ScoresFound(found) == IF ~found.ok THEN DefaultScores ELSE ScoresRead(JSONparse(found.text))
rubricSubjective(j) ==
  IF j.throws THEN DefaultScores
  ELSE ScoresFound(jsonMatch(IF j.hasContent THEN trim(j.content) ELSE <<>>))

\* a judge call whatever the analysis
NeedsJudge_Always(analysis) == TRUE

\* the test of line 94, negated: the prompt goes on to the judge
NeedsJudge(analysis) == analysis.type # "objective"

evaluateWithRubric(r, p, j) ==
  LET promptAnalysis == analyzePrompt(p)
  IN  IF ~NeedsJudge(promptAnalysis) THEN rubricObjective(promptAnalysis, r)
      ELSE rubricSubjective(j)

-----------------------------------------------------------------------------
(* Inputs: prompts and responses are written from parts, so that what was  *)
(* asked and what was answered are known apart from the program's reading  *)
(* of the text.                                                            *)

MaxOperand == 3

RECURSIVE IntToDigits(_)
IntToDigits(n) ==
  IF n < 10 THEN <<DigitSeq[n + 1]>>
  ELSE IntToDigits(n \div 10) \o <<DigitSeq[(n % 10) + 1]>>

Operands == (0..MaxOperand) \cup {12}
Operators == {"+", "-", "*", "/"}

MathText(a, op, b, form) ==
  CASE form = 1 -> <<"w", "h", "a", "t", " ", "i", "s", " ">> \o IntToDigits(a) \o <<" ", op, " ">> \o IntToDigits(b)
    [] form = 2 -> <<"W", "h", "a", "t", " ", "i", "s", " ">> \o IntToDigits(a) \o <<op>> \o IntToDigits(b) \o <<"?">>
    [] form = 3 -> <<"Q", "u", "i", "c", "k", ":", " ", "W", "H", "A", "T", " ", "I", "S", " ">> \o IntToDigits(a) \o <<" ", " ", op, "\t">>
                     \o IntToDigits(b) \o <<" ", "e", "x", "a", "c", "t", "l", "y">>
    [] OTHER -> <<"w", "h", "a", "t", " ", "i", "s", " ">> \o IntToDigits(a) \o <<"\r", op, "\f", "U+00A0">> \o IntToDigits(b)

LetterText(letter, word, form) ==
  CASE form = 1 -> <<"h", "o", "w", " ", "m", "a", "n", "y", " ", "l", "e", "t", "t", "e", "r", "s", " ">> \o <<letter>> \o <<" ", "a", "r", "e", " ", "i", "n", " ">> \o word
    [] form = 2 -> <<"H", "o", "w", " ", "m", "a", "n", "y", " ", "o", "f", " ", "t", "h", "e", " ", "c", "h", "a", "r", "a", "c", "t", "e", "r", "s", " ", "'">> \o <<letter>> \o <<"'", " ", "a", "r", "e", " ", "t", "h", "e", "r", "e", " ", "i", "n", " ", "t", "h", "e", " ", "w", "o", "r", "d", " ", "\"">>
                     \o word \o <<"\"", "?">>
    [] OTHER -> <<"T", "e", "l", "l", " ", "m", "e", " ", "h", "o", "w", " ", "m", "a", "n", "y", " ", "l", "e", "t", "t", "e", "r", " ">> \o <<letter>> \o <<" ", "i", "s", " ", "i", "n", " ", "t", "h", "e", " ", "w", "o", "r", "d", " ">> \o word

WordText(phrase, form) ==
  CASE form = 1 -> <<"h", "o", "w", " ", "m", "a", "n", "y", " ", "w", "o", "r", "d", "s", " ", "a", "r", "e", " ", "i", "n", " ">> \o phrase
    [] form = 2 -> <<"H", "o", "w", " ", "m", "a", "n", "y", " ", "w", "o", "r", "d", "s", " ", "i", "s", " ", "t", "h", "e", "r", "e", " ", "i", "n", " ", "\"">> \o phrase \o <<"\"">>
    [] OTHER -> <<"h", "o", "w", " ", "m", "a", "n", "y", " ", "w", "o", "r", "d", "s", " ", "a", "r", "e", " ", "t", "h", "e", "r", "e", " ", "i", "n", " ", "'">> \o phrase \o <<"'", "?">>

Letters == {"r", "A", "b"}
Words == {<<"s", "t", "r", "a", "w", "b", "e", "r", "r", "y">>, <<"B", "a", "n", "a", "n", "a">>, <<"b", "_", "4", "b">>, <<"t", "h", "e">>}
Phrases == {<<"h", "e", "l", "l", "o", " ", "w", "o", "r", "l", "d">>, <<"o", "n", "e">>, <<" ", " ", "t", "w", "o", " ", "\t", " ", "w", "o", "r", "d", "s", "\n">>, <<"a", " ", "b", " ", "c", " ", "d">>,
            <<"d", "o", "n", "'", "t", " ", "s", "t", "o", "p", " ", "b", "e", "l", "i", "e", "v", "i", "n", "g">>, <<" ">>, <<"a", "\r", "b", "U+2003", "\f", "c">>}
Forms == 1..3

MathParts ==
  [kind : {"math"}, a : Operands, op : Operators, b : Operands, form : {1}]
    \cup [kind : {"math"}, a : {1, 12}, op : Operators, b : Operands, form : {2, 3}]
    \cup [kind : {"math"}, a : {2}, op : Operators, b : {0, 2}, form : {4}]
LetterParts == [kind : {"letter"}, letter : Letters, word : Words, form : Forms]
WordParts == [kind : {"word"}, phrase : Phrases, form : Forms]
\* prompts that match two templates at once
MathWordParts == [kind : {"mathword"}, a : {2}, op : {"+", "/"}, b : {0, 2}, form : {1},
                  phrase : {<<"a", " ", "b", " ", "c">>, <<"x", " ", "y", " ", "z", " ", "w">>}]
MathLetterParts == [kind : {"mathletter"}, a : {2}, op : {"+"}, b : {1, 2}, form : {1},
                    letter : {"a"}, word : {<<"b", "a", "n", "a", "n", "a">>, <<"c", "a", "t">>}]
WordLetterParts == [kind : {"wordletter"}, letter : {"a"}, word : {<<"b", "a", "n", "a", "n", "a">>}]
\* operands that are not doubles, or whose product is not
BigMathParts ==
  [kind : {"bigmath"}, a : {<<"9", "0", "0", "7", "1", "9", "9", "2", "5", "4", "7", "4", "0", "9", "9", "3">>, <<"9", "4", "9", "0", "6", "2", "6", "7">>}, op : {"+", "*"},
   b : {<<"0">>, <<"9", "4", "9", "0", "6", "2", "6", "7">>}]
SubjectiveParts ==
  [kind : {"subjective"},
   text : {<<"e", "x", "p", "l", "a", "i", "n", " ", "g", "r", "a", "v", "i", "t", "y">>, <<"w", "h", "a", "t", " ", "i", "s", " ", "l", "o", "v", "e">>, <<"w", "h", "a", "t", " ", "i", "s", " ", "2", " ", "p", "l", "u", "s", " ", "2">>,
           <<"h", "o", "w", " ", "m", "a", "n", "y", " ", "w", "o", "r", "d", "s">>, <<"h", "o", "w", " ", "m", "a", "n", "y", " ", "l", "e", "t", "t", "e", "r", "s", " ", "a", "r", "e", " ", "i", "n", " ", "c", "a", "t">>, <<"n", "a", "m", "e", " ", "3", " ", "c", "o", "l", "o", "r", "s">>, <<>>}]

PromptParts ==
  MathParts \cup LetterParts \cup WordParts \cup MathWordParts \cup MathLetterParts
    \cup WordLetterParts \cup BigMathParts \cup SubjectiveParts

BuildPrompt(g) ==
  CASE g.kind = "math" -> MathText(g.a, g.op, g.b, g.form)
    [] g.kind = "letter" -> LetterText(g.letter, g.word, g.form)
    [] g.kind = "word" -> WordText(g.phrase, g.form)
    [] g.kind = "mathword" ->
         MathText(g.a, g.op, g.b, g.form) \o <<" ", "a", "n", "d", " ">> \o WordText(g.phrase, 1)
    [] g.kind = "mathletter" ->
         MathText(g.a, g.op, g.b, g.form) \o <<";", " ">> \o LetterText(g.letter, g.word, 1)
    [] g.kind = "bigmath" -> <<"w", "h", "a", "t", " ", "i", "s", " ">> \o g.a \o <<" ", g.op, " ">> \o g.b
    [] g.kind = "wordletter" ->
         <<"h", "o", "w", " ", "m", "a", "n", "y", " ", "w", "o", "r", "d", "s", " ", "a", "r", "e", " ", "i", "n", " ">> \o LetterText(g.letter, g.word, 1)
    [] OTHER -> g.text

\* A response that answers a number: text around the first number in it
\* the number is written with the digits of text after int: it is
\* int + milli/1000, and a little more than that when more digits follow
Fraction(text, milli) == [text |-> text, milli |-> milli, more |-> FALSE]
Whole == Fraction(<<>>, 0)
LongFraction == [text |-> <<".", "0", "1", "0", "0", "0", "0", "0", "0", "0", "0", "0", "0", "0", "0", "0", "0", "0", "0", "1">>, milli |-> 10, more |-> TRUE]
Fractions ==
  {Whole, Fraction(<<".">>, 0), Fraction(<<".", "0", "0", "5">>, 5), Fraction(<<".", "0", "2">>, 20),
   Fraction(<<".", "5">>, 500), Fraction(<<".", "3", "3">>, 330), Fraction(<<".", "0", "1">>, 10),
   Fraction(<<".", "9", "9">>, 990), LongFraction}
NumberResponses ==
  [kind : {"num"}, shape : {1}, neg : BOOLEAN, int : {0, 1, 3, 4, 15}, frac : Fractions]
    \cup [kind : {"num"}, shape : {2, 3}, neg : BOOLEAN, int : {3, 4},
          frac : {Whole, Fraction(<<".", "0", "2">>, 20)}]
PlainResponses ==
  [kind : {"plain"}, text : {<<>>, <<"n", "o", " ", "i", "d", "e", "a">>, <<"f", "o", "u", "r">>, <<"-">>, <<"-", " ", "a", ".", "b">>}]
\* answers of many digits
BigResponses ==
  [kind : {"big"},
   digits : {<<"9", "0", "0", "7", "1", "9", "9", "2", "5", "4", "7", "4", "0", "9", "9", "2">>, <<"9", "0", "0", "7", "1", "9", "9", "2", "5", "4", "7", "4", "0", "9", "9", "3">>, <<"9", "0", "0", "7", "1", "9", "9", "2", "5", "4", "7", "4", "0", "9", "9", "4">>,
             <<"9", "0", "0", "7", "1", "9", "9", "5", "1", "5", "8", "7", "5", "2", "8", "8">>, <<"9", "0", "0", "7", "1", "9", "9", "5", "1", "5", "8", "7", "5", "2", "8", "9">>, <<"9", "9", "9", "9", "9", "9", "9", "9", "9", "9", "9">>}]
ResponseParts == NumberResponses \cup PlainResponses \cup BigResponses

BuildResponse(g) ==
  IF g.kind = "plain" THEN g.text
  ELSE IF g.kind = "big" THEN g.digits
  ELSE LET number == (IF g.neg THEN <<"-">> ELSE <<>>) \o IntToDigits(g.int) \o g.frac.text
       IN  CASE g.shape = 1 -> number
             [] g.shape = 2 -> <<"T", "h", "e", " ", "a", "n", "s", "w", "e", "r", " ", "i", "s", " ">> \o number \o <<".">>
             [] OTHER -> <<"I", " ", "g", "e", "t", " ">> \o number \o <<" ", "(", "n", "o", "t", " ", "7", " ", "o", "r", " ", "-", "1", ")">>

\* What the judge call does: it throws, or returns a completion whose
\* content is missing or is a text
JThrow == [throws |-> TRUE, hasContent |-> FALSE, content |-> <<>>]
JMissing == [throws |-> FALSE, hasContent |-> FALSE, content |-> <<>>]
JText(c) == [throws |-> FALSE, hasContent |-> TRUE, content |-> c]
\* the fence of a code block: three grave accents
Fence == <<"U+0060", "U+0060", "U+0060">>
\* the object the judge is asked for, with acc and rel written as JSON
JudgeObject(acc, rel) ==
  <<"{", "\"", "a", "c", "c", "u", "r", "a", "c", "y", "\"", ":", " ">> \o acc \o <<",", " ", "\"", "r", "e", "l", "e", "v", "a", "n", "c", "y", "\"", ":", " ">> \o rel \o <<",", " ", "\"", "r", "e", "a", "s", "o", "n", "i", "n", "g", "\"", ":", " ", "\"", "f", "i", "n", "e", "\"", "}">>

JudgeValues ==
  {<<"8", "5">>, <<"0">>, <<"1", "0", "0">>, <<"1", "5", "0">>, <<"-", "1", "0">>, <<"7", ".", "5">>, <<"2", ".", "5", "e", "1">>, <<"1", "e", "4", "0", "0">>, <<"n", "u", "l", "l">>,
   <<"t", "r", "u", "e">>, <<"f", "a", "l", "s", "e">>, <<"\"", "h", "i", "g", "h", "\"">>, <<"\"", "7", "0", "\"">>, <<"\"", "\"">>, <<"\"", "-", "5", "\"">>, <<"\"", "7", ".", "5", "\"">>,
   <<"\"", " ", "7", "0", "\\", "n", "\"">>, <<"\"", "1", "e", "2", "\"">>, <<"\"", "5", "e", "-", "1", "\"">>, <<"\"", "0", "x", "1", "0", "\"">>, <<"\"", "-", "0", "x", "1", "0", "\"">>,
   <<"\"", "I", "n", "f", "i", "n", "i", "t", "y", "\"">>, <<"\"", "-", "I", "n", "f", "i", "n", "i", "t", "y", "\"">>, <<"\"", ".", "\"">>, <<"\"", ".", "5", "\"">>, <<"\"", "\\", "u", "0", "0", "3", "8", "\\", "u", "0", "0", "3", "5", "\"">>,
   <<"{", "}">>, <<"{", "\"", "s", "c", "o", "r", "e", "\"", ":", " ", "8", "5", "}">>, <<"[", "]">>, <<"[", "7", "0", "]">>, <<"[", "\"", "7", "0", "\"", "]">>, <<"[", "[", "7", "0", "]", "]">>, <<"[", "n", "u", "l", "l", "]">>,
   <<"[", "t", "r", "u", "e", "]">>, <<"[", "7", "0", ",", " ", "8", "0", "]">>,
   <<"9", "0", "0", "7", "1", "9", "9", "2", "5", "4", "7", "4", "0", "9", "9", "3">>, <<"0", ".", "0", "0", "0", "0", "0", "0", "0", "0", "0", "0", "0", "0", "0", "0", "0", "0", "0", "0", "0", "0", "1">>}
JudgeOtherValues == {<<"9", "0">>, <<"1", "0", "1">>, <<"\"", "n", "/", "a", "\"">>}

JudgeOutcomes ==
  {JThrow, JMissing, JText(<<>>), JText(<<"g", "o", "o", "d", " ", "a", "n", "s", "w", "e", "r">>)}
    \cup {JText(JudgeObject(a, r)) : a \in JudgeValues, r \in JudgeOtherValues}
    \cup {JText(<<"S", "u", "r", "e", ",", " ", "h", "e", "r", "e", ":", " ">> \o JudgeObject(<<"4", "0">>, <<"6", "0">>) \o <<" ", "d", "o", "n", "e">>),
          JText(<<" ", "\n">> \o Fence \o <<"j", "s", "o", "n", "\n", "{", "\n", " ", " ", "\"", "a", "c", "c", "u", "r", "a", "c", "y", "\"", ":", " ", "8", "5", ",", "\n", " ", " ", "\"", "r", "e", "l", "e", "v", "a", "n", "c", "y", "\"", ":", " ", "9", "0", "\n", "}", "\n">>
                  \o Fence \o <<"\n">>),
          JText(<<"{", "}">>),
          JText(<<"{", "\"", "r", "e", "a", "s", "o", "n", "i", "n", "g", "\"", ":", " ", "\"", "f", "i", "n", "e", "\"", "}">>),
          JText(<<"{", "\"", "a", "c", "c", "u", "r", "a", "c", "y", "\"", ":", " ", "3", "0", "}">>),
          JText(<<"{", "\"", "a", "c", "c", "u", "r", "a", "c", "y", "\"", ":", " ", "1", "0", ",", " ", "\"", "r", "e", "l", "e", "v", "a", "n", "c", "y", "\"", ":", " ", "2", "0", ",", " ", "\"", "a", "c", "c", "u", "r", "a", "c", "y", "\"", ":", " ", "7", "0", "}">>),
          JText(<<"{", "\"", "a", "c", "c", "u", "r", "a", "c", "y", "\"", " ", "8", "5", "}">>),
          JText(<<"{", "a", "c", "c", "u", "r", "a", "c", "y", ":", " ", "8", "5", "}">>),
          JText(<<"{", "'", "a", "c", "c", "u", "r", "a", "c", "y", "'", ":", " ", "8", "5", "}">>),
          JText(<<"{", "\"", "a", "c", "c", "u", "r", "a", "c", "y", "\"", ":", " ", "8", "5", ",", "}">>),
          JText(<<"{", "\"", "a", "c", "c", "u", "r", "a", "c", "y", "\"", ":", " ", "0", "8", "5", ",", " ", "\"", "r", "e", "l", "e", "v", "a", "n", "c", "y", "\"", ":", " ", "9", "0", "}">>),
          JText(<<"{", "\"", "a", "c", "c", "u", "r", "a", "c", "y", "\"", ":", " ", "8", "5", ",", " ", "\"", "r", "e", "l", "e", "v", "a", "n", "c", "y", "\"", ":", " ", "9", "0", ",", " ", "\"", "r", "e", "a", "s", "o", "n", "i", "n", "g", "\"", ":", " ", "\"", "a", "\t", "b", "\"", "}">>),
          JText(<<"{", "\"", "a", "c", "c", "u", "r", "a", "c", "y", "\"", ":", " ", "8", "5", ",", " ", "\"", "r", "e", "l", "e", "v", "a", "n", "c", "y", "\"", ":", " ", "9", "0", ",", " ", "\"", "r", "e", "a", "s", "o", "n", "i", "n", "g", "\"", ":", " ", "\"", "a", "\\", "t", "b", " ", "\\", "\"", "q", "\\", "\"", " ", "\\", "\\", "\"", "}">>),
          JText(<<"{", "\"", "a", "c", "c", "u", "r", "a", "c", "y", "\"", ":", " ", "8", "5", ",", " ", "\"", "r", "e", "l", "e", "v", "a", "n", "c", "y", "\"", ":", " ", "9", "0", ",", " ", "\"", "r", "e", "a", "s", "o", "n", "i", "n", "g", "\"", ":", " ", "\"", "b", "a", "d", " ", "\\", "e", "s", "c", "a", "p", "e", "\"", "}">>),
          JText(<<"{", "\"", "a", "c", "c", "u", "r", "a", "c", "y", "\"", ":", " ", "8", "5", ",", " ", "\"", "r", "e", "l", "e", "v", "a", "n", "c", "y", "\"", ":", " ", "9", "0", ",", " ", "\"", "r", "e", "a", "s", "o", "n", "i", "n", "g", "\"", ":", " ", "\"", "u", "s", "e", " ", "{", "b", "r", "a", "c", "e", "s", "}", "\"", "}">>),
          JText(<<"{", "\"", "a", "c", "c", "u", "r", "a", "c", "y", "\"", ":", " ", "8", "5", ",", " ", "\"", "r", "e", "l", "e", "v", "a", "n", "c", "y", "\"", ":", " ", "9", "0", "}", " ", "N", "o", "t", "e", " ", "\"", "}", "\"">>),
          JText(<<"\"", "{", "\"", " ", "{", "\"", "a", "c", "c", "u", "r", "a", "c", "y", "\"", ":", " ", "8", "5", ",", " ", "\"", "r", "e", "l", "e", "v", "a", "n", "c", "y", "\"", ":", " ", "9", "0", "}">>),
          JText(<<"{", "\"", "s", "c", "o", "r", "e", "s", "\"", ":", " ", "{", "\"", "a", "c", "c", "u", "r", "a", "c", "y", "\"", ":", " ", "8", "5", ",", " ", "\"", "r", "e", "l", "e", "v", "a", "n", "c", "y", "\"", ":", " ", "9", "0", "}", "}">>),
          JText(<<"{", "\"", "a", "c", "c", "u", "r", "a", "c", "y", "\"", ":", " ", "8", "5", ",", " ", "\"", "r", "e", "l", "e", "v", "a", "n", "c", "y", "\"", ":", " ", "9", "0", ",", " ", "\"", "d", "e", "t", "a", "i", "l", "\"", ":", " ", "{", "\"", "k", "\"", ":", " ", "[", "1", ",", " ", "2", ".", "5", ",", " ", "n", "u", "l", "l", "]", "}", "}">>),
          JText(JudgeObject(<<"8", "0">>, <<"9", "0">>) \o <<" ", "a", "n", "d", " ">> \o JudgeObject(<<"1", "0">>, <<"2", "0">>)),
          JText(<<"{", "\"", "a", "c", "c", "u", "r", "a", "c", "y", "\"", ":", " ", "8", "5">>),
          JText(<<"}", " ", "t", "h", "e", "n", " ", "{">>)}

NoRubric == [done |-> FALSE, awaiting |-> FALSE]

-----------------------------------------------------------------------------
(* The configured models and the initial state of each component           *)

\* the models array of evaluatePrompt
Models == <<"mixtral-8x7b-32768", "gemma2-9b-it", "llama-3.3-70b-versatile",
            "llama-3.1-8b-instant">>
ModelIndex == 1..Len(Models)

NoReply == [ok |-> FALSE, status |-> 0, parses |-> FALSE, data |-> <<>>]

RubricIdle ==
  /\ given = [p |-> [kind |-> "subjective", text |-> <<>>]]
  /\ prompt = <<>>
  /\ response = <<>>
  /\ judge = JThrow
  /\ rubric = NoRubric

BatchInit ==
  /\ epc = "idle"
  /\ calls = [i \in ModelIndex |-> [pc |-> "idle"]]
  /\ values = [i \in ModelIndex |-> [filled |-> FALSE]]
  /\ settled = 0
  /\ responses = <<>>
  /\ judgeCalls = [i \in ModelIndex |-> 0]

DashInit ==
  /\ dPrompt = <<>>
  /\ dResponses = <<>>
  /\ isLoading = FALSE
  /\ error = Null
  /\ dpc = "idle"
  /\ reply = NoReply
  /\ shown = <<>>

-----------------------------------------------------------------------------
(* Rubric evaluation alone: evaluateWithRubric applied to one prompt, one  *)
(* response and one behaviour of the judge call                            *)

\* Objective prompts never reach the judge, so they are paired with one
\* judge behaviour; subjective prompts are paired with every one.
Paired(g, r, j) ==
  IF (g.kind = "bigmath") # (r.kind = "big") THEN FALSE
  ELSE IF g.kind # "subjective" THEN j = JThrow
  ELSE IF r.kind = "plain" THEN TRUE
  ELSE r.shape = 1 /\ r.int = 4 /\ r.frac = Whole

RubricInit ==
  /\ \E g \in PromptParts, r \in ResponseParts, j \in JudgeOutcomes :
       /\ Paired(g, r, j)
       /\ given = [p |-> g, r |-> r, j |-> j]
  /\ prompt = BuildPrompt(given.p)
  /\ response = BuildResponse(given.r)
  /\ judge = given.j
  /\ rubric = NoRubric
  /\ BatchInit
  /\ DashInit

\* the call up to its return (objective prompt) or to the await of the
\* judge call (line 127)
Evaluate ==
  /\ ~rubric.done /\ ~rubric.awaiting
  /\ LET promptAnalysis == analyzePrompt(prompt)
     IN  rubric' = IF NeedsJudge(promptAnalysis) THEN [done |-> FALSE, awaiting |-> TRUE]
                   ELSE [done |-> TRUE, result |-> rubricObjective(promptAnalysis, response)]
  /\ UNCHANGED <<given, prompt, response, judge, batchVars, dashVars>>

\* the judge call returns or throws and evaluateWithRubric runs to its return
RubricJudgeSettles ==
  /\ ~rubric.done /\ rubric.awaiting
  /\ rubric' = [done |-> TRUE, result |-> rubricSubjective(judge)]
  /\ UNCHANGED <<given, prompt, response, judge, batchVars, dashVars>>

RubricNext == Evaluate \/ RubricJudgeSettles

SpecRubric == RubricInit /\ [][RubricNext]_vars

-----------------------------------------------------------------------------
(* getGroqResponse and evaluatePrompt                                      *)

\* the switch on the model: the literal assigned, dollars per 1000 tokens
RateLiteral(model) ==
  CASE model = "mixtral-8x7b-32768" -> <<"0", ".", "0", "2", "7">>
    [] model = "llama-3.3-70b-versatile" -> <<"0", ".", "0", "0", "0", "7">>
    [] model = "gemma2-9b-it" -> <<"0", ".", "0", "0", "0", "1">>
    [] model = "llama-3.1-8b-instant" -> <<"0", ".", "0", "0", "0", "1">>
    [] OTHER -> <<"0", ".", "0", "0", "0", "1">>

\* the number the literal denotes
costPer1kTokens(model) == parseFloat(RateLiteral(model))

\* (tokenCount / 1000) * costPer1kTokens
Cost(tokenCount, rate) ==
  Arithmetic("*", Arithmetic("/", DFromInt(tokenCount), DFromInt(1000)), rate)

\* (Date.now() - startTime) / 1000
ResponseTime(elapsed) == Arithmetic("/", DFromInt(elapsed), DFromInt(1000))

\* What a model call does: it throws (an Error with a message, or
\* something that is no Error), or returns a completion whose content
\* and usage may be missing.  elapsed is Date.now() - startTime.
Thrown(isError, message, elapsed) ==
  [throws |-> TRUE, isError |-> isError, message |-> message, elapsed |-> elapsed,
   hasContent |-> FALSE, content |-> <<>>, hasUsage |-> FALSE, total_tokens |-> 0]
Completion(hasContent, content, hasUsage, tokens, elapsed) ==
  [throws |-> FALSE, isError |-> FALSE, message |-> "", elapsed |-> elapsed,
   hasContent |-> hasContent, content |-> content, hasUsage |-> hasUsage, total_tokens |-> tokens]

Completions ==
  {Completion(TRUE, <<"I", " ", "t", "h", "i", "n", "k", " ", "i", "t", " ", "i", "s", " ", "4">>, TRUE, 1250, 800),
   Completion(FALSE, <<>>, FALSE, 0, 500)}
Throws ==
  {Thrown(TRUE, "Rate limit exceeded", 300), Thrown(TRUE, "", 100), Thrown(FALSE, "", 200)}

BatchPrompts ==
  {[kind |-> "math", a |-> 2, op |-> "+", b |-> 2, form |-> 1],
   [kind |-> "letter", letter |-> "r", word |-> <<"s", "t", "r", "a", "w", "b", "e", "r", "r", "y">>, form |-> 2],
   [kind |-> "word", phrase |-> <<"a", " ", "b", " ", "c", " ", "d">>, form |-> 1],
   [kind |-> "subjective", text |-> <<"e", "x", "p", "l", "a", "i", "n", " ", "g", "r", "a", "v", "i", "t", "y">>]}
BatchJudges ==
  {JThrow, JText(JudgeObject(<<"8", "5">>, <<"9", "0">>)), JText(<<"{", "}">>)}

\* the fields read from the completion (lines 179-203)
Received(model, out) ==
  LET tokenCount == IF out.hasUsage THEN out.total_tokens ELSE 0
  IN  [response |-> IF out.hasContent THEN out.content ELSE <<>>,
       tokenCount |-> tokenCount,
       responseTime |-> ResponseTime(out.elapsed),
       cost |-> Cost(tokenCount, costPer1kTokens(model))]

\* the value getGroqResponse returns from its try block
GroqResult(model, got, evaluation) ==
  [model |-> model, response |-> got.response,
   metrics |-> [accuracy |-> evaluation.accuracy, relevancy |-> evaluation.relevancy,
                responseTime |-> got.responseTime, cost |-> got.cost,
                tokenCount |-> got.tokenCount],
   hasError |-> FALSE, error |-> ""]

\* the value getGroqResponse returns from its catch block
GroqCatch(model, err) ==
  [model |-> model, response |-> <<>>,
   metrics |-> [accuracy |-> Zero, relevancy |-> Zero,
                responseTime |-> ResponseTime(err.elapsed), cost |-> Zero,
                tokenCount |-> 0],
   hasError |-> TRUE, error |-> IF err.isError THEN err.message ELSE "Unknown error"]

Fulfilled(v) == [state |-> "fulfilled", value |-> v]
Rejected(v) == [state |-> "rejected", value |-> v]

\* the error is thrown on: the promise is rejected
OnThrow_Rethrow(model, err) == Rejected(GroqCatch(model, err))

\* a throw inside the try block is caught: the promise is fulfilled
OnThrow(model, err) == Fulfilled(GroqCatch(model, err))

\* each value is appended as it arrives
Slot_Push(i, n) == n + 1

\* Promise.all keeps each value at the position of its promise
Slot(i, n) == i

\* Promise.all, when the promise at position i settles: a rejection
\* rejects the whole, a value is kept until every promise has one
Settle(i, p) ==
  IF p.state = "rejected"
  THEN /\ epc' = IF epc = "awaiting" THEN "rejected" ELSE epc
       /\ UNCHANGED <<values, settled, responses>>
  ELSE /\ values' = [values EXCEPT ![Slot(i, settled)] = [filled |-> TRUE, value |-> p.value]]
       /\ settled' = settled + 1
       /\ UNCHANGED <<epc, responses>>

\* evaluatePrompt(prompt): models.map starts every call before any returns
EvaluatePrompt ==
  /\ epc = "idle"
  /\ \E g \in BatchPrompts :
       /\ given' = [p |-> g]
       /\ prompt' = BuildPrompt(g)
  /\ epc' = "awaiting"
  /\ calls' = [i \in ModelIndex |-> [pc |-> "model"]]
  /\ UNCHANGED <<response, judge, rubric, values, settled, responses, judgeCalls, dashVars>>

\* The completion of model i arrives: lines 179-206, up to the await of
\* evaluateWithRubric, which has run to its return (an objective prompt) or
\* to the await of its judge call
ModelReturns(i) ==
  /\ calls[i].pc = "model"
  /\ \E out \in Completions :
       LET got == Received(Models[i], out)
           promptAnalysis == analyzePrompt(prompt)
       IN  IF NeedsJudge(promptAnalysis)
           THEN /\ calls' = [calls EXCEPT ![i] = [pc |-> "judge", out |-> out, got |-> got]]
                /\ judgeCalls' = [judgeCalls EXCEPT ![i] = @ + 1]
           ELSE /\ calls' = [calls EXCEPT ![i] =
                               [pc |-> "scored", out |-> out, got |-> got, jout |-> JThrow,
                                evaluation |-> rubricObjective(promptAnalysis, got.response)]]
                /\ UNCHANGED judgeCalls
  /\ UNCHANGED <<epc, values, settled, responses, rubricVars, dashVars>>

\* the call of model i throws: the catch block
ModelThrows(i) ==
  /\ calls[i].pc = "model"
  /\ \E err \in Throws :
       /\ calls' = [calls EXCEPT ![i] = [pc |-> "done", out |-> err, jout |-> JThrow]]
       /\ Settle(i, OnThrow(Models[i], err))
  /\ UNCHANGED <<judgeCalls, rubricVars, dashVars>>

\* the judge call of model i returns or throws: evaluateWithRubric runs
\* lines 142-164 to its return
JudgeSettles(i) ==
  /\ calls[i].pc = "judge"
  /\ \E j \in BatchJudges :
       calls' = [calls EXCEPT ![i] =
                   [pc |-> "scored", out |-> calls[i].out, got |-> calls[i].got, jout |-> j,
                    evaluation |-> rubricSubjective(j)]]
  /\ UNCHANGED <<epc, values, settled, responses, judgeCalls, rubricVars, dashVars>>

\* getGroqResponse of model i resumes after the await of line 206 and
\* returns: lines 207-219
EvaluationArrives(i) ==
  /\ calls[i].pc = "scored"
  /\ calls' = [calls EXCEPT ![i] = [pc |-> "done", out |-> calls[i].out, jout |-> calls[i].jout]]
  /\ Settle(i, Fulfilled(GroqResult(Models[i], calls[i].got, calls[i].evaluation)))
  /\ UNCHANGED <<judgeCalls, rubricVars, dashVars>>

\* every promise has its value: the await of Promise.all (line 249) resumes
\* with the array and evaluatePrompt returns it
BatchResolves ==
  /\ epc = "awaiting"
  /\ settled = Len(Models)
  /\ epc' = "resolved"
  /\ responses' = [k \in ModelIndex |-> values[k].value]
  /\ UNCHANGED <<calls, values, settled, judgeCalls, rubricVars, dashVars>>

Init == RubricIdle /\ BatchInit /\ DashInit

Next ==
  \/ EvaluatePrompt
  \/ \E i \in ModelIndex : ModelReturns(i)
  \/ \E i \in ModelIndex : ModelThrows(i)
  \/ \E i \in ModelIndex : JudgeSettles(i)
  \/ \E i \in ModelIndex : EvaluationArrives(i)
  \/ BatchResolves

Spec == Init /\ [][Next]_vars

-----------------------------------------------------------------------------
(* The Dashboard: ModelInfo and handleSubmit                               *)

\* ModelInfo[model].costPer1k, the text shown on the card
costPer1k(model) ==
  CASE model = "mixtral-8x7b-32768" -> <<"$", "0", ".", "0", "0", "2", "7">>
    [] model = "gemma2-9b-it" -> <<"$", "0", ".", "0", "0", "0", "1">>
    [] model = "llama-3.3-70b-versatile" -> <<"$", "0", ".", "0", "0", "0", "7">>
    [] model = "llama-3.1-8b-instant" -> <<"$", "0", ".", "0", "0", "0", "1">>
    [] OTHER -> <<>>

DashPrompts == {<<>>, <<" ", "\n">>, <<"h", "i">>, <<" ", "w", "h", "a", "t", " ", "i", "s", " ", "2", " ", "+", " ", "2", " ">>}
DataLists == {<<>>, <<"r1">>, <<"r1", "r2", "r3", "r4">>, <<"r5", "r6", "r7", "r8">>}
Statuses == {404, 500}
\* what fetch resolves with: the status, and whether the body parses (to data)
Replies ==
  [ok : {FALSE}, status : Statuses, parses : {FALSE}, data : {<<>>}]
    \cup [ok : {TRUE}, status : {200}, parses : {FALSE}, data : {<<>>}]
    \cup [ok : {TRUE}, status : {200}, parses : {TRUE}, data : DataLists]
\* what fetch rejects with
Exceptions ==
  {[isError |-> TRUE, message |-> "Failed to fetch"], [isError |-> TRUE, message |-> ""],
   [isError |-> FALSE, message |-> ""]}

\* err instanceof Error ? err.message : 'An error occurred'
CatchMessage(err) == IF err.isError THEN err.message ELSE "An error occurred"

\* the catch block and the finally block after it
Failed(err) ==
  /\ error' = CatchMessage(err)
  /\ isLoading' = FALSE
  /\ dpc' = "idle"
  /\ reply' = NoReply
  /\ UNCHANGED <<dResponses, dPrompt, shown>>

\* the textarea's onChange
SetPrompt ==
  /\ \E t \in DashPrompts : t # dPrompt /\ dPrompt' = t
  /\ UNCHANGED <<dResponses, isLoading, error, dpc, reply, shown>>
  /\ UNCHANGED <<rubricVars, batchVars>>

\* a click on the button, which is disabled while loading: handleSubmit
\* up to its first await
Submit ==
  /\ ~isLoading
  /\ dpc = "idle"
  /\ IF trim(dPrompt) = <<>>
     THEN /\ error' = "Please enter a prompt"
          /\ UNCHANGED <<dPrompt, dResponses, isLoading, dpc, reply, shown>>
     ELSE /\ isLoading' = TRUE
          /\ error' = Null
          /\ dpc' = "fetching"
          /\ shown' = dResponses
          /\ UNCHANGED <<dPrompt, dResponses, reply>>
  /\ UNCHANGED <<rubricVars, batchVars>>

\* fetch resolves: a status that is not ok throws, else the body is read
FetchResolves ==
  /\ dpc = "fetching"
  /\ \E r \in Replies :
       IF ~r.ok
       THEN Failed([isError |-> TRUE, message |-> "HTTP error! status: " \o ToString(r.status)])
       ELSE /\ dpc' = "reading"
            /\ reply' = r
            /\ UNCHANGED <<dPrompt, dResponses, isLoading, error, shown>>
  /\ UNCHANGED <<rubricVars, batchVars>>

\* fetch rejects
FetchRejects ==
  /\ dpc = "fetching"
  /\ \E err \in Exceptions : Failed(err)
  /\ UNCHANGED <<rubricVars, batchVars>>

\* response.json() settles: setResponses(data), or the catch block
JsonSettles ==
  /\ dpc = "reading"
  /\ IF reply.parses
     THEN /\ dResponses' = reply.data
          /\ isLoading' = FALSE
          /\ dpc' = "idle"
          /\ reply' = NoReply
          /\ UNCHANGED <<dPrompt, error, shown>>
     ELSE Failed([isError |-> TRUE, message |-> "Unexpected token < in JSON at position 0"])
  /\ UNCHANGED <<rubricVars, batchVars>>

DashNext == SetPrompt \/ Submit \/ FetchResolves \/ FetchRejects \/ JsonSettles

\* Nothing makes a request or the reading of a body end: there is no
\* timeout
SpecDash == Init /\ [][DashNext]_vars

-----------------------------------------------------------------------------
(* What was asked and what was answered, read from the parts               *)

HasArithmetic(g) == g.kind \in {"math", "mathword", "mathletter", "bigmath"}
DivisionByZero(g) == g.op = "/" /\ g.b = 0
\* the exact result of a prompt written from small operands, as a fraction
ExactResult(g) ==
  CASE g.op = "+" -> [num |-> g.a + g.b, den |-> 1]
    [] g.op = "-" -> [num |-> g.a - g.b, den |-> 1]
    [] g.op = "*" -> [num |-> g.a * g.b, den |-> 1]
    [] OTHER -> [num |-> g.a, den |-> g.b]
\* x is the double nearest to the fraction q
IsNearest(x, q) == x = Nearest(q.num, q.den)
\* the number answered without the digits after its thousandths, in
\* thousandths
Answered(r) == (IF r.neg THEN -1 ELSE 1) * (1000 * r.int + r.frac.milli)
\* that number less the exact result, in units of 1 / Unit(g), and the
\* distance between them in units of 1 / (100 * Unit(g)): 0.01 is Unit(g)
\* of them
Difference(g, r) == Answered(r) * ExactResult(g).den - ExactResult(g).num * 1000
Distance(g, r) == 100 * Abs(Difference(g, r))
Unit(g) == 1000 * ExactResult(g).den
\* the digits after the thousandths take the answered number towards the
\* exact result
MoreIsNearer(g, r) ==
  r.frac.more /\ (IF r.neg THEN Difference(g, r) > 0 ELSE Difference(g, r) < 0)
\* the answered number, with every digit written, is less than 0.01 away
\* from the exact result
AnsweredClose(g, r) ==
  /\ r.kind = "num"
  /\ ~DivisionByZero(g)
  /\ IF MoreIsNearer(g, r) THEN Distance(g, r) <= Unit(g) ELSE Distance(g, r) < Unit(g)
\* the double nearest to the answered number: the digits of LongFraction
\* after the thousandths are too few to change it
AnsweredDouble(r) == Nearest(Answered(r), 1000)
\* the double of a op b for the doubles of small operands, which are exact
ExpectedDouble(g) == Arithmetic(g.op, DFromInt(g.a), DFromInt(g.b))
\* the doubles of the answered number and of the result are less than the
\* double of 0.01 apart, by the double of their difference
DoublesClose(g, r) ==
  /\ r.kind = "num"
  /\ DLess(DAbs(Arithmetic("-", AnsweredDouble(r), ExpectedDouble(g))), Nearest(1, 100))
\* The exact result of a prompt written from operands of many digits, and
\* the integer a double is
BigOperation(a, op, b) == IF op = "+" THEN BigAdd(a, b) ELSE BigMul(a, b)
BigExact(g) == BigOperation(BigFromDigits(g.a, 10), g.op, BigFromDigits(g.b, 10))
IntegerOf(x) == BigShl(x.m, x.e)
NearestInteger(n) == Round(FALSE, n, <<1>>, 0)
\* the result of the operation on the doubles nearest to the operands
BigExpected(g) ==
  NearestInteger(BigOperation(IntegerOf(NearestInteger(BigFromDigits(g.a, 10))), g.op,
                              IntegerOf(NearestInteger(BigFromDigits(g.b, 10)))))
Yes == DFromInt(1)
No == DFromInt(0)
\* occurrences of the letter in the word, whatever the case
TrueLetterCount(letter, word) ==
  Cardinality({k \in 1..Len(word) : ToLower(word[k]) = ToLower(letter)})
\* words of the phrase: the places where a run of non-blank characters begins
TrueWordCount(phrase) ==
  Cardinality({k \in 1..Len(phrase) :
                 ~IsSpace(phrase[k]) /\ (k = 1 \/ IsSpace(phrase[k - 1]))})
TrueCount(g) ==
  IF g.kind = "letter" THEN TrueLetterCount(g.letter, g.word) ELSE TrueWordCount(g.phrase)
InUnit(x) == x.kind = "fin" /\ ~DLess(x, No) /\ ~DLess(Yes, x)
IsBinary(x) == x \in {No, Yes}

TextOf(out) == IF out.hasContent THEN out.content ELSE <<>>
Subjective == given.p.kind = "subjective"
Done(i) == calls[i].pc = "done"
Threw(i) == calls[i].out.throws

-----------------------------------------------------------------------------
(* C1 *)

\* C1: evaluatePrompt yields one result per configured model, and no result
\* has both an empty response and an absent or empty error.
C1_EveryResultHasResponseOrError ==
  /\ epc # "rejected"
  /\ epc = "resolved" =>
       /\ Len(responses) = Len(Models)
       /\ \A i \in ModelIndex :
            ~(responses[i].response = <<>> /\ (~responses[i].hasError \/ responses[i].error = ""))

-----------------------------------------------------------------------------
(* C2 *)

\* C2: a prompt that matches no template is scored by the judge, and the
\* accuracy and relevancy returned lie in [0,1] whatever the judge returns.
C2_SubjectiveScoresBounded ==
  (rubric.done /\ Subjective) =>
    /\ NeedsJudge(analyzePrompt(prompt))
    /\ rubric.result.details # "objective"
    /\ InUnit(rubric.result.accuracy)
    /\ InUnit(rubric.result.relevancy)

-----------------------------------------------------------------------------
(* C3 *)

\* What each model is to return when no call fails, written out for the
\* prompts, the completions and the judge answers of the batch: the
\* completion with a content answers "I think it is 4" in 800 ms with
\* 1250 tokens, the other has no content and no usage and takes 500 ms
UnfailedScores(kind, answered, j) ==
  CASE kind = "math" -> IF answered THEN <<Yes, Yes>> ELSE <<No, No>>
    [] kind = "letter" -> IF answered THEN <<No, Yes>> ELSE <<No, No>>
    [] kind = "word" -> IF answered THEN <<Yes, Yes>> ELSE <<No, No>>
    [] OTHER -> CASE j = JThrow -> <<Nearest(1, 2), Nearest(1, 2)>>
                  [] j = JText(<<"{", "}">>) -> <<NaN, NaN>>
                  [] OTHER -> <<Nearest(85, 100), Nearest(90, 100)>>
UnfailedRate(model) ==
  CASE model = "mixtral-8x7b-32768" -> Nearest(27, 1000)
    [] model = "llama-3.3-70b-versatile" -> Nearest(7, 10000)
    [] OTHER -> Nearest(1, 10000)
UnfailedMetrics(model, answered, scores) ==
  [accuracy |-> scores[1], relevancy |-> scores[2],
   responseTime |-> IF answered THEN Nearest(4, 5) ELSE Nearest(1, 2),
   cost |-> IF answered THEN Arithmetic("*", Nearest(5, 4), UnfailedRate(model)) ELSE No,
   tokenCount |-> IF answered THEN 1250 ELSE 0]
UnfailedResult(i) ==
  [model |-> Models[i],
   response |-> IF calls[i].out.hasContent THEN <<"I", " ", "t", "h", "i", "n", "k", " ", "i", "t", " ", "i", "s", " ", "4">> ELSE <<>>,
   metrics |-> UnfailedMetrics(Models[i], calls[i].out.hasContent,
                               UnfailedScores(given.p.kind, calls[i].out.hasContent,
                                              calls[i].jout)),
   hasError |-> FALSE, error |-> ""]
AllDone == \A i \in ModelIndex : Done(i)

\* C3: whichever calls fail and in whatever order the calls complete,
\* evaluatePrompt never rejects; it does not resolve before every call has
\* returned or thrown, and once every call has, its next step resolves it;
\* each failed model's result carries its error string, and every other
\* model's result is the one it has when no call fails.
C3_FailuresAreIsolated ==
  /\ [](epc # "rejected")
  /\ [](epc = "resolved" =>
         /\ AllDone
         /\ \A i \in ModelIndex :
              IF Threw(i)
              THEN /\ responses[i].hasError
                   /\ responses[i].error =
                        (IF calls[i].out.isError THEN calls[i].out.message ELSE "Unknown error")
              ELSE responses[i] = UnfailedResult(i))
  /\ [][(AllDone /\ epc = "awaiting") => epc' = "resolved"]_vars

C3_Witness ==
  /\ epc = "resolved"
  /\ Threw(1) /\ ~Threw(2) /\ Threw(3) /\ ~Threw(4)
  /\ responses[3].error = "Rate limit exceeded"
  /\ Subjective

-----------------------------------------------------------------------------
(* C4 *)

\* C4 as stated: every prompt with the arithmetic template, also one that
\* matches another template too, is objective with the exact result as its
\* expected answer, and scores 1 exactly when the answered number is less
\* than 0.01 away from it (0 for a division by zero).
C4_ArithmeticAlways ==
  (rubric.done /\ HasArithmetic(given.p)) =>
    /\ analyzePrompt(prompt).type = "objective"
    /\ IF given.p.kind = "bigmath"
       THEN /\ analyzePrompt(prompt).correctAnswer.kind = "fin"
            /\ IntegerOf(analyzePrompt(prompt).correctAnswer) = BigExact(given.p)
            /\ rubric.result.accuracy =
                 (IF BigFromDigits(given.r.digits, 10) = BigExact(given.p) THEN Yes ELSE No)
       ELSE /\ ~DivisionByZero(given.p) =>
                 IsNearest(analyzePrompt(prompt).correctAnswer, ExactResult(given.p))
            /\ rubric.result.accuracy = (IF AnsweredClose(given.p, given.r) THEN Yes ELSE No)

\* C4 amended: every prompt with the arithmetic template that matches
\* neither the letter-count nor the word-count template is objective.  Its
\* expected answer is the double of a op b for the doubles nearest to the
\* operands: the double nearest to the exact result when the operands are
\* doubles, and not a number for 0 / 0.  The score is 1 exactly when the
\* double nearest to the answered number and the expected answer are less
\* than the double of 0.01 apart, by the double of their difference: 1
\* when the double answered is less than 0.01 away from the exact result,
\* 0 when it is more than 0.01 away, and 1 or 0 when it is 0.01 away.
C4_ArithmeticAlone ==
  (rubric.done /\ given.p.kind \in {"math", "bigmath"}) =>
    /\ analyzePrompt(prompt).type = "objective"
    /\ IF given.p.kind = "bigmath"
       THEN /\ analyzePrompt(prompt).correctAnswer = BigExpected(given.p)
            /\ rubric.result.accuracy =
                 (IF NearestInteger(BigFromDigits(given.r.digits, 10)) = BigExpected(given.p)
                  THEN Yes ELSE No)
       ELSE /\ ~DivisionByZero(given.p) =>
                 IsNearest(analyzePrompt(prompt).correctAnswer, ExactResult(given.p))
            /\ rubric.result.accuracy = (IF DoublesClose(given.p, given.r) THEN Yes ELSE No)
            /\ (given.r.kind = "num" /\ ~DivisionByZero(given.p)) =>
                 CASE Distance(given.p, given.r) < Unit(given.p) -> rubric.result.accuracy = Yes
                   [] Distance(given.p, given.r) > Unit(given.p) -> rubric.result.accuracy = No
                   [] OTHER -> IsBinary(rubric.result.accuracy)

\* "4.0100000000000000001" answered to 2 + 2, written with a carriage
\* return, a form feed and a no-break space around the operator, scores 1;
\* so does "9007199254740992" answered to 9007199254740993 + 0
C4_Witness ==
  /\ rubric.done
  /\ \/ /\ given.p.kind = "math" /\ given.p.form = 4
        /\ given.p.op = "+" /\ given.p.a = 2 /\ given.p.b = 2
        /\ given.r.kind = "num" /\ given.r.shape = 1
        /\ ~given.r.neg /\ given.r.int = 4 /\ given.r.frac = LongFraction
     \/ /\ given.p = [kind |-> "bigmath", a |-> <<"9", "0", "0", "7", "1", "9", "9", "2", "5", "4", "7", "4", "0", "9", "9", "3">>, op |-> "+", b |-> <<"0">>]
        /\ given.r.kind = "big" /\ given.r.digits = <<"9", "0", "0", "7", "1", "9", "9", "2", "5", "4", "7", "4", "0", "9", "9", "2">>
  /\ rubric.result.accuracy = Yes

-----------------------------------------------------------------------------
(* C5 *)

\* C5: for a letter-count prompt the expected count is the number of
\* occurrences of the asked letter in the asked word, for a word-count
\* prompt the number of words of the asked phrase, and the score is 1
\* exactly when the integer answered equals that count.
C5_CountsAreExact ==
  (rubric.done /\ given.p.kind \in {"letter", "word"}) =>
    /\ analyzePrompt(prompt).type = "objective"
    /\ analyzePrompt(prompt).correctAnswer = DFromInt(TrueCount(given.p))
    /\ rubric.result.accuracy =
         (IF given.r.kind = "num" /\ given.r.int = TrueCount(given.p) THEN Yes ELSE No)

-----------------------------------------------------------------------------
(* C6 *)

\* judge behaviours that are failures: a throw, an object with no scores
JudgeFailures == {JThrow, JText(<<"{", "}">>)}

\* C6: for a subjective prompt, when the judge fails the scores are
\* exactly 0.5 and 0.5, and the model's result keeps its response and
\* carries no error.
C6_JudgeFailureIsNeutral ==
  \A i \in ModelIndex :
    (Done(i) /\ Subjective /\ ~Threw(i) /\ calls[i].jout \in JudgeFailures) =>
      /\ values[i].filled
      /\ values[i].value.metrics.accuracy = Nearest(1, 2)
      /\ values[i].value.metrics.relevancy = Nearest(1, 2)
      /\ values[i].value.response = TextOf(calls[i].out)
      /\ ~values[i].value.hasError

-----------------------------------------------------------------------------
(* C7 *)

\* C7: for an objective prompt accuracy and relevancy are each 0 or 1 and
\* no judge call is issued; for a subjective prompt one judge call is
\* issued per model that answered and none for a model whose call failed.
C7_JudgeCallsAndBinaryScores ==
  \A i \in ModelIndex :
    /\ calls[i].pc \in {"idle", "model"} => judgeCalls[i] = 0
    /\ calls[i].pc = "judge" => (Subjective /\ judgeCalls[i] = 1)
    /\ calls[i].pc = "scored" => judgeCalls[i] = (IF Subjective THEN 1 ELSE 0)
    /\ Done(i) =>
         IF Subjective
         THEN judgeCalls[i] = (IF Threw(i) THEN 0 ELSE 1)
         ELSE /\ judgeCalls[i] = 0
              /\ ~Threw(i) =>
                   /\ IsBinary(values[i].value.metrics.accuracy)
                   /\ IsBinary(values[i].value.metrics.relevancy)

C7_Witness ==
  /\ epc = "resolved"
  /\ ~Subjective
  /\ responses[1].metrics.accuracy = Yes
  /\ responses[2].metrics.accuracy = No /\ ~responses[2].hasError
  /\ responses[3].hasError

-----------------------------------------------------------------------------
(* C8 *)

\* C8: a submit of a non-blank prompt ends with the loading flag false,
\* either with the results replaced by the returned list and no error, or
\* with the error set and the results as they were; the results never
\* change while the request is in flight; a blank prompt sets the error
\* and issues no request, leaving the loading flag and the results.
C8_SubmitOutcome ==
  /\ (dpc # "idle") ~> (dpc = "idle" /\ ~isLoading)
  /\ [][(dpc # "idle" /\ dpc' = "idle") =>
          /\ ~isLoading'
          /\ IF dpc = "reading" /\ reply.ok /\ reply.parses
             THEN dResponses' = reply.data /\ error' = Null
             ELSE error' \notin {Null, ""} /\ dResponses' = shown /\ dResponses' = dResponses]_vars
  /\ [][(dpc' # "idle") => (isLoading' /\ dResponses' = dResponses)]_vars
  /\ [][(dpc = "idle" /\ trim(dPrompt) = <<>> /\ dPrompt' = dPrompt) =>
          /\ error' = "Please enter a prompt"
          /\ dpc' = "idle"
          /\ isLoading' = isLoading /\ dResponses' = dResponses]_vars

-----------------------------------------------------------------------------
(* C9 *)

\* C9: in whatever order the calls complete, the list evaluatePrompt
\* returns is in the configured order, and the result at each position is
\* that model's own.
C9_ResultsInConfiguredOrder ==
  epc = "resolved" =>
    /\ [i \in ModelIndex |-> responses[i].model] =
         <<"mixtral-8x7b-32768", "gemma2-9b-it", "llama-3.3-70b-versatile",
           "llama-3.1-8b-instant">>
    /\ \A i \in ModelIndex :
         /\ responses[i].hasError = Threw(i)
         /\ responses[i].response = TextOf(calls[i].out)
         /\ responses[i].metrics.responseTime = Nearest(calls[i].out.elapsed, 1000)
         /\ responses[i].metrics.tokenCount =
              (IF calls[i].out.hasUsage THEN calls[i].out.total_tokens ELSE 0)
         /\ (Subjective /\ ~Threw(i)) =>
              responses[i].metrics.accuracy = rubricSubjective(calls[i].jout).accuracy

C9_Witness ==
  /\ epc = "resolved"
  /\ Subjective
  /\ Threw(1)
  /\ ~Threw(2) /\ ~Threw(3) /\ ~Threw(4)
  /\ responses[2].response # responses[3].response
  /\ responses[3].metrics.accuracy # responses[4].metrics.accuracy

-----------------------------------------------------------------------------
(* C10 *)

\* the rate the card shows: the text after the dollar sign
DisplayedRate(model) == parseFloat(Tail(costPer1k(model)))

\* C10: the cost of a successful result is its token count over 1000
\* times the rate the Dashboard card shows for its model.
C10_CostUsesDisplayedRate ==
  \A i \in ModelIndex :
    (values[i].filled /\ ~values[i].value.hasError) =>
      values[i].value.metrics.cost =
        Cost(values[i].value.metrics.tokenCount, DisplayedRate(values[i].value.model))
====
